---- MODULE Spec2Model ----
(***************************************************************************)
(* Model of the MPS integration layer of Emacs (igc.c): the root registry, *)
(* the thread registry with its allocation points, the park/release and    *)
(* inhibit-GC protocol, and the reserve/commit allocation loops.           *)
(*                                                                         *)
(* The MPS arena is represented by what the layer can observe of it: the   *)
(* parked flag, the sets of live MPS roots, threads and allocation points, *)
(* and the reservations handed out by the allocation points.               *)
(***************************************************************************)
EXTENDS Integers, Sequences, FiniteSets, TLC

(***************************************************************************)
(* Bounds                                                                  *)
(***************************************************************************)
\* igc_root_list nodes / MPS roots that can exist at the same time
NumRootNodes == 8
\* Lisp threads (thread 1 is the main thread)
NumThreads == 2
\* MPS allocation points that can exist at the same time
NumAPs == 6
\* nesting depth of inhibit-GC scopes per thread
MaxInhibit == 2
\* objects each pool can hand out before mps_reserve fails
MaxReserves == 3
\* igc_make_cons / igc_alloc_symbol calls per thread
MaxCalls == 2
\* width of a machine word (mps_word_t) in bits
WordBits == 14
\* finalizer objects
NumFinalizers == 2
\* finalization messages the message queue can hold
MaxMessages == 3
\* frames of handle_messages and of finalizer functions on a thread's stack
MaxDrainDepth == 3
\* finalization messages the collector posts in one behaviour
MaxPosted == 3

(***************************************************************************)
(* Program constants                                                       *)
(***************************************************************************)
NULL == 0
MPS_RES_OK == 0
MPS_RES_FAIL == 1

Threads == 1..NumThreads
MainThread == 1
RootNodes == 1..NumRootNodes
ThreadNodes == 1..NumThreads
APs == 1..NumAPs

\* Address ranges of the static roots of add_static_roots
BufferDefaults == <<1000, 1008>>
BufferLocalSymbols == <<1016, 1024>>
StaticVec == <<1032, 1040>>
LispSym == <<1048, 1056>>
\* dump_public.start / dump_public.end once the dump is mapped
DumpRegion == <<2000, 2008>>
\* cold end of the control stack of thread t
Cold(t) == 3000 + t

\* The blocks malloc can return, as <<start, end>>: two adjacent blocks and
\* the block that covers both.  NoBlock is a null pointer.
NoBlock == <<NULL, NULL>>
Blocks == { <<16, 24>>, <<24, 32>>, <<16, 32>> }

\* a request of zero bytes: the block malloc returns for it is empty
ZeroSizeBlocks == { <<32, 32>> }

Overlap(a, b) == a[1] < b[2] /\ b[1] < a[2]

(***************************************************************************)
(* State                                                                   *)
(***************************************************************************)
VARIABLES
  status,      \* "running", "aborted" after emacs_abort, "crashed" after a fault,
               \* "exiting" once free_igc has been entered
  parked,      \* the arena is in the parked state
  roots,       \* global_igc->roots: [head, node, live]
  threads,     \* global_igc->threads: [head, node, live]
  mps_roots,   \* MPS roots created and not destroyed
  mps_thrs,    \* MPS threads registered and not deregistered
  mps_aps,     \* MPS allocation points created and not destroyed
  failed,      \* the resource whose creation returned a failure result, or "none"
  gc_info,     \* thread t's current_thread->gc_info
  specpdl,     \* thread t's <<specpdl, specpdl_end>>
  face_cache,  \* [faces_by_id |-> block, igc_info |-> handle] of the face cache
  matrix,      \* [rows |-> block, igc_info |-> handle] of the glyph matrix
  rdstack,     \* [blk |-> block, info |-> handle] of the reader stack
  mem,         \* mem_nodes of the block allocator: set of [blk, info]
  xroots,      \* blocks obtained from igc_xalloc_ambig_root and not freed
  dump_loaded, \* the dump has been mapped
  inhibit,     \* per thread: release_arena entries on its binding stack
  scope_exit,  \* per thread: how its latest inhibit-GC scope was left
  hook,        \* the root-reallocation hook in progress, if any
  alloc,       \* per thread: the igc_make_cons / igc_alloc_symbol call in progress
  mps_buf,     \* per allocation point: the reservation not yet committed
  cons_mem,    \* the objects reserved in the cons pool, in address order
  sym_mem,     \* the objects reserved in the symbol pool, in address order
  log,         \* per allocation point: the objects committed, oldest first
  calls,       \* per thread: the allocation calls made so far, as <<car, cdr>>
               \* for igc_make_cons and <<>> for igc_alloc_symbol
  slot,        \* the slot last passed to IGC_FIX: the word before and after
  fin,         \* per finalizer object: its function field
  msgq,        \* the finalization messages of the arena's message queue
  runs,        \* per finalizer object: how often its function has been run
  drain,       \* per thread: its stack of handle_messages and finalizer frames
  glock,       \* the thread that holds the global lock (current_thread)
  rop,         \* per thread: its igc_on_mem_insert / igc_on_mem_delete call
               \* in progress, statement by statement
  codec,       \* the word last tagged, with what IGC_TAG and IGC_VAL make of it
  scan,        \* the latest call of a scan function: the memory before and
               \* after, the result, and the slots IGC_FIX was applied to
  fmt,         \* the memory the fwd, isfwd and pad methods of the object
               \* formats work on, with their latest call and the one before
  td,          \* free_igc: the statement it is at and what it has destroyed
  hm           \* the finalization messages posted so far: which of them are
               \* in the queue, which call of handle_messages obtained each,
               \* how often each was passed to do_finalize, which are discarded

gcvars == <<status, parked, roots, threads, mps_roots, mps_thrs, mps_aps, failed>>
rtvars == <<gc_info, specpdl, face_cache, matrix, rdstack, mem, xroots,
            dump_loaded>>
alvars == <<alloc, mps_buf, cons_mem, sym_mem, log, calls>>
finvars == <<slot, fin, msgq, runs, drain>>
ropvars == <<glock, rop>>
purevars == <<codec, scan, fmt, hm, td>>
xvars == <<ropvars, purevars>>
cbvars == <<slot, fin, msgq, runs, drain, xvars>>
vars == <<gcvars, rtvars, inhibit, scope_exit, hook, alvars, cbvars>>

(***************************************************************************)
(* IGC_DEFINE_LIST: doubly-linked list with head pointer                   *)
(***************************************************************************)
\* a node that is not part of a list reads as zeroes; zero is the zero value
\* of the list's data type
EmptyList(Nodes, zero) ==
  [head |-> NULL, live |-> {}, zero |-> zero,
   node |-> [n \in Nodes |-> [next |-> NULL, prev |-> NULL, d |-> zero]]]

\* xzalloc: the block handed out for a new list node
xzalloc(L) == CHOOSE n \in DOMAIN L.node :
                 n \notin L.live /\ \A m \in DOMAIN L.node : m < n => m \in L.live

list_push(L, d) ==
  LET r == xzalloc(L)
      n1 == [L.node EXCEPT ![r] = [next |-> L.head, prev |-> NULL, d |-> d]]
      n2 == IF L.head # NULL THEN [n1 EXCEPT ![L.head].prev = r] ELSE n1
  IN [L EXCEPT !.head = r, !.node = n2, !.live = @ \cup {r}]

\* list_remove that leaves the prev field of the next node alone
list_remove_mut(L, r) ==
  LET nx == L.node[r].next
      pv == L.node[r].prev
      n2 == IF pv # NULL THEN [L.node EXCEPT ![pv].next = nx] ELSE L.node
  IN [L EXCEPT !.head = IF pv # NULL THEN @ ELSE nx,
                !.node = [n2 EXCEPT ![r] = [next |-> NULL, prev |-> NULL, d |-> L.zero]],
                !.live = @ \ {r}]

list_remove(L, r) ==
  LET nx == L.node[r].next
      pv == L.node[r].prev
      n1 == IF nx # NULL THEN [L.node EXCEPT ![nx].prev = pv] ELSE L.node
      n2 == IF pv # NULL THEN [n1 EXCEPT ![pv].next = nx] ELSE n1
  IN [L EXCEPT !.head = IF pv # NULL THEN @ ELSE nx,
                !.node = [n2 EXCEPT ![r] = [next |-> NULL, prev |-> NULL, d |-> L.zero]],
                !.live = @ \ {r}]

\* The nodes reachable from the head through next
RECURSIVE Walk(_, _, _)
Walk(L, r, k) ==
  IF r = NULL \/ k = 0 THEN <<>> ELSE <<r>> \o Walk(L, L.node[r].next, k - 1)
ListSeq(L) == Walk(L, L.head, Cardinality(DOMAIN L.node))
ListSet(L) == { ListSeq(L)[i] : i \in 1..Len(ListSeq(L)) }

(***************************************************************************)
(* The collector state as a value: struct igc plus the MPS arena           *)
(***************************************************************************)
GC == [status |-> status, parked |-> parked, roots |-> roots,
       threads |-> threads, mps_roots |-> mps_roots, mps_thrs |-> mps_thrs,
       mps_aps |-> mps_aps, failed |-> failed, res |-> MPS_RES_OK, ret |-> NULL]

SetGC(G) ==
  /\ status' = G.status
  /\ parked' = G.parked
  /\ roots' = G.roots
  /\ threads' = G.threads
  /\ mps_roots' = G.mps_roots
  /\ mps_thrs' = G.mps_thrs
  /\ mps_aps' = G.mps_aps
  /\ failed' = G.failed

Running(G) == G.status = "running"
emacs_abort(G) == [G EXCEPT !.status = "aborted"]
\* a null pointer is dereferenced
segfault(G) == [G EXCEPT !.status = "crashed"]

\* IGC_CHECK_RES that goes on after a failure result
IGC_CHECK_RES_mut(G) == G

IGC_CHECK_RES(G) == IF G.res # MPS_RES_OK THEN emacs_abort(G) ELSE G

LowestFree(S, N) == CHOOSE i \in 1..N : i \notin S /\ \A j \in 1..(i - 1) : j \in S

mps_arena_park(G) == [G EXCEPT !.parked = TRUE]
mps_arena_release(G) == [G EXCEPT !.parked = FALSE]

\* mps_root_create_area / _area_tagged / _thread_tagged: a new MPS root in
\* ret, or a failure result when the arena cannot hold another root
mps_root_create(G) ==
  IF Cardinality(G.mps_roots) < NumRootNodes
  THEN [G EXCEPT !.mps_roots = @ \cup {LowestFree(G.mps_roots, NumRootNodes)},
                 !.ret = LowestFree(G.mps_roots, NumRootNodes),
                 !.res = MPS_RES_OK]
  ELSE [G EXCEPT !.res = MPS_RES_FAIL, !.failed = "root"]

mps_root_destroy(G, root) == [G EXCEPT !.mps_roots = @ \ {root}]

(***************************************************************************)
(* Roots                                                                   *)
(***************************************************************************)
register_root(G, root, start, end) ==
  [G EXCEPT !.roots = list_push(@, [root |-> root, start |-> start, end |-> end]),
            !.ret = xzalloc(G.roots)]

find_root_with_start(G, start) ==
  LET s == ListSeq(G.roots)
      hits == { i \in 1..Len(s) : G.roots.node[s[i]].d.start = start }
  IN IF hits = {} THEN NULL
     ELSE s[CHOOSE i \in hits : \A j \in hits : i <= j]

deregister_root(G, r) ==
  [G EXCEPT !.roots = list_remove(@, r), !.ret = G.roots.node[r].d.root]

remove_root(G, r) ==
  IF r = NULL THEN segfault(G)
  ELSE LET G1 == deregister_root(G, r) IN mps_root_destroy(G1, G1.ret)

make_ambig_root(G, start, end) == IGC_CHECK_RES(mps_root_create(G))

\* mps_root_create_area is handed start and end as they come.  Nothing in
\* igc.c compares the two; an MPS library built with argument assertions
\* (aver) stops the process on an empty range, one built without creates
\* the root.
mps_root_create_area_args(G, start, end, aver) ==
  IF start = end /\ aver THEN emacs_abort(G) ELSE G

igc_on_mem_insert(G, start, end) ==
  LET G1 == make_ambig_root(G, start, end)
  IN IF Running(G1) THEN register_root(G1, G1.ret, start, end) ELSE G1

igc_on_mem_delete(G, info) == remove_root(G, info)

\* the root part of igc_xalloc_ambig_root; start is the block from xzalloc
igc_xalloc_ambig_root(G, start, end) ==
  LET G1 == make_ambig_root(G, start, end)
  IN IF Running(G1) THEN register_root(G1, G1.ret, start, end) ELSE G1

\* IGC_ASSERT aborts in a build with IGC_DEBUG (debug) and is empty otherwise
igc_xfree_ambig_root(G, p, debug) ==
  IF p = NULL THEN G
  ELSE LET r == find_root_with_start(G, p)
       IN IF r = NULL /\ debug THEN emacs_abort(G) ELSE remove_root(G, r)

\* What remove_root can do with a handle whose list node was freed by an
\* earlier igc_root_list_remove and has not been handed out again: the read
\* of the node faults, the allocator detects the second xfree and aborts, or
\* the node reads as zeroes, so that the list head is overwritten with its
\* next field before mps_root_destroy faults on the null root.
FreedNodeOutcomes == {"fault", "abort", "zeroes"}

\* remove_root of any handle a caller can hold.  A freed node that xzalloc
\* has handed out again is the node of a newer root, and is removed as such.
remove_root_handle(G, r, outcome) ==
  IF r = NULL \/ r \in G.roots.live THEN remove_root(G, r)
  ELSE IF outcome = "fault" THEN segfault(G)
  ELSE IF outcome = "abort" THEN emacs_abort(G)
  ELSE segfault(deregister_root(G, r))

add_area_root(G, blk) ==
  LET G1 == IGC_CHECK_RES(mps_root_create(G))
  IN IF ~Running(G) THEN G
     ELSE IF Running(G1) THEN register_root(G1, G1.ret, blk[1], blk[2]) ELSE G1

add_staticvec_root(G) == add_area_root(G, StaticVec)
add_builtin_symbols_root(G) == add_area_root(G, LispSym)
add_buffer_root(G, b) == add_area_root(G, b)

add_static_roots(G) ==
  add_builtin_symbols_root(
    add_staticvec_root(
      add_buffer_root(add_buffer_root(G, BufferDefaults), BufferLocalSymbols)))

\* t is the thread's igc_thread_list node, blk its <<specpdl, specpdl_end>>
add_specpdl_root(G, t, blk) ==
  IF blk[1] # NULL
  THEN LET G1 == make_ambig_root(G, blk[1], blk[2])
           G2 == register_root(G1, G1.ret, blk[1], blk[2])
       IN IF Running(G1)
          THEN [G2 EXCEPT !.threads.node[t].d.specpdl_root = G2.ret]
          ELSE G1
  ELSE G

\* igc_thread_add without the root for the control stack
add_thread_root_mut(G, t) == G

add_thread_root(G, t) ==
  LET G1 == IGC_CHECK_RES(mps_root_create(G))
  IN IF Running(G1)
     THEN register_root(G1, G1.ret, G.threads.node[t].d.cold, NULL)
     ELSE G1

igc_on_pdump_loaded(G) ==
  LET G1 == make_ambig_root(G, DumpRegion[1], DumpRegion[2])
  IN IF Running(G1) THEN register_root(G1, G1.ret, DumpRegion[1], DumpRegion[2])
     ELSE G1

(***************************************************************************)
(* Allocation points and threads                                           *)
(***************************************************************************)
\* mps_ap_create_k on the given pool: a new allocation point in ret, or a
\* failure result when the arena cannot hold another one
mps_ap_create_k(G, pool) ==
  IF \E a \in APs : G.mps_aps[a] = "none"
  THEN LET a == CHOOSE a \in APs :
                  G.mps_aps[a] = "none" /\ \A b \in 1..(a - 1) : G.mps_aps[b] # "none"
       IN [G EXCEPT !.mps_aps[a] = pool, !.ret = a, !.res = MPS_RES_OK]
  ELSE [G EXCEPT !.res = MPS_RES_FAIL, !.failed = "ap"]

mps_ap_destroy(G, a) == [G EXCEPT !.mps_aps[a] = "none"]

make_thread_aps(G, t) ==
  LET G1 == IGC_CHECK_RES(mps_ap_create_k(G, "cons"))
      G2 == [G1 EXCEPT !.threads.node[t].d.cons_ap = G1.ret]
      G3 == IGC_CHECK_RES(mps_ap_create_k(G2, "symbol"))
      G4 == [G3 EXCEPT !.threads.node[t].d.symbol_ap = G3.ret]
  IN IF ~Running(G1) THEN G1 ELSE IF ~Running(G3) THEN G3 ELSE G4

free_thread_aps(G, t) ==
  [mps_ap_destroy(G, G.threads.node[t].d.cons_ap)
     EXCEPT !.threads.node[t].d.cons_ap = NULL]

mps_thread_reg(G) ==
  IF Cardinality(G.mps_thrs) < NumThreads
  THEN [G EXCEPT !.mps_thrs = @ \cup {LowestFree(G.mps_thrs, NumThreads)},
                 !.ret = LowestFree(G.mps_thrs, NumThreads),
                 !.res = MPS_RES_OK]
  ELSE [G EXCEPT !.res = MPS_RES_FAIL, !.failed = "thread"]

mps_thread_dereg(G, thr) == [G EXCEPT !.mps_thrs = @ \ {thr}]

register_thread(G, thr, cold) ==
  [G EXCEPT !.threads = list_push(@, [thr |-> thr, cold |-> cold,
                                      specpdl_root |-> NULL,
                                      cons_ap |-> NULL, symbol_ap |-> NULL]),
            !.ret = xzalloc(G.threads)]

deregister_thread(G, t) ==
  [G EXCEPT !.threads = list_remove(@, t), !.ret = G.threads.node[t].d.thr]

\* blk is the starting thread's <<specpdl, specpdl_end>>; ret is the new
\* igc_thread_list node
igc_thread_add(G, cold, blk) ==
  LET G1 == IGC_CHECK_RES(mps_thread_reg(G))
      G2 == register_thread(G1, G1.ret, cold)
      t  == G2.ret
      G3 == add_thread_root(G2, t)
      G4 == add_specpdl_root(G3, t, blk)
      G5 == make_thread_aps(G4, t)
  IN IF ~Running(G1) THEN G1
     ELSE IF ~Running(G3) THEN G3
     ELSE IF ~Running(G4) THEN G4
     ELSE [G5 EXCEPT !.ret = t]

igc_thread_remove(G, info) ==
  LET G1 == free_thread_aps(G, info)
      G2 == deregister_thread(G1, info)
  IN mps_thread_dereg(G2, G2.ret)

(***************************************************************************)
(* Setup                                                                   *)
(***************************************************************************)
ZeroRoot == [root |-> NULL, start |-> NULL, end |-> NULL]
ZeroThread == [thr |-> NULL, cold |-> NULL, specpdl_root |-> NULL,
               cons_ap |-> NULL, symbol_ap |-> NULL]

\* the arena right after mps_arena_create_k, with nothing registered
NewGC == [status |-> "running", parked |-> FALSE,
          roots |-> EmptyList(RootNodes, ZeroRoot),
          threads |-> EmptyList(ThreadNodes, ZeroThread),
          mps_roots |-> {}, mps_thrs |-> {},
          mps_aps |-> [a \in APs |-> "none"], failed |-> "none",
          res |-> MPS_RES_OK, ret |-> NULL]

\* what make_igc creates before it adds the static roots
BootResources == {"arena", "chain", "cons_fmt", "cons_pool", "symbol_fmt", "symbol_pool"}
AllOK == [r \in BootResources |-> MPS_RES_OK]

\* one of the mps_..._create calls of make_igc; results gives the result of
\* each call
make_igc_create(G, what, results) ==
  IF Running(G)
  THEN [G EXCEPT !.res = results[what],
                 !.failed = IF results[what] # MPS_RES_OK THEN what ELSE @]
  ELSE G

make_igc_k(results) ==
  LET G1 == IGC_CHECK_RES(make_igc_create(NewGC, "arena", results))
      G2 == IGC_CHECK_RES(make_igc_create(G1, "chain", results))
      G3 == IGC_CHECK_RES(make_igc_create(G2, "cons_fmt", results))
      G4 == IGC_CHECK_RES(make_igc_create(G3, "cons_pool", results))
      G5 == IGC_CHECK_RES(make_igc_create(G4, "symbol_fmt", results))
      G6 == IGC_CHECK_RES(make_igc_create(G5, "symbol_pool", results))
  IN IF Running(G6) /\ G6.failed = "none" THEN add_static_roots(G6) ELSE G6

make_igc == make_igc_k(AllOK)

\* init_igc; the main thread has no binding stack yet
init_igc_k(results) ==
  LET G == make_igc_k(results)
  IN IF Running(G) /\ G.failed = "none"
     THEN igc_thread_add(G, Cold(MainThread), NoBlock) ELSE G

init_igc == init_igc_k(AllOK)

NoHook == [name |-> "none", t |-> NULL, pc |-> "none", info |-> NULL]
\* a thread that is not inside an allocation function
NoAlloc == [pc |-> "idle", fn |-> "none", ap |-> NULL, p |-> NULL, car |-> NULL,
            cdr |-> NULL, tries |-> 0, val |-> NULL]
\* a thread that is not inside igc_on_mem_insert or igc_on_mem_delete
NoOp == [pc |-> "idle", blk |-> NoBlock, root |-> NULL, r |-> NULL, last |-> "none"]
\* an allocation point without outstanding reservation
NoBuf == [p |-> NULL, flipped |-> FALSE]

(***************************************************************************)
(* The runtime around the collector: who owns which malloc block           *)
(***************************************************************************)
LiveBlocks ==
  ({ specpdl[t] : t \in Threads } \cup { face_cache.faces_by_id, matrix.rows, rdstack.blk }
     \cup { m.blk : m \in mem } \cup xroots) \ {NoBlock}

\* malloc: a block that overlaps no live block
Malloc == { b \in Blocks : \A l \in LiveBlocks : ~Overlap(b, l) }
\* malloc of a request that may be of zero bytes
Malloc0 == Malloc \cup (ZeroSizeBlocks \ LiveBlocks)
\* realloc of old: the new block may reuse the memory of the old one
Realloc(old) == { b \in Blocks : b # old /\ \A l \in LiveBlocks \ {old} : ~Overlap(b, l) }

\* no hook is in progress and thread t is running Lisp code
CanCall(t) ==
  /\ status = "running" /\ hook = NoHook
  /\ gc_info[t] # NULL /\ alloc[t].pc = "idle"
\* some thread is running Lisp code
AnyCanCall == \E t \in Threads : CanCall(t)

(***************************************************************************)
(* Hooks that run in one piece                                             *)
(***************************************************************************)
MemInsert ==
  /\ AnyCanCall
  /\ \E b \in Malloc0, aver \in BOOLEAN :
       LET G0 == mps_root_create_area_args(GC, b[1], b[2], aver)
           G == IF Running(G0) THEN igc_on_mem_insert(G0, b[1], b[2]) ELSE G0
       IN /\ SetGC(G)
          /\ mem' = IF Running(G) THEN mem \cup {[blk |-> b, info |-> G.ret]} ELSE mem
  /\ UNCHANGED <<gc_info, specpdl, face_cache, matrix, rdstack, xroots,
                 dump_loaded, inhibit, scope_exit, hook>>
  /\ UNCHANGED alvars
  /\ UNCHANGED cbvars

MemDelete ==
  /\ AnyCanCall
  /\ \E m \in mem :
       /\ SetGC(igc_on_mem_delete(GC, m.info))
       /\ mem' = mem \ {m}
  /\ UNCHANGED <<gc_info, specpdl, face_cache, matrix, rdstack, xroots,
                 dump_loaded, inhibit, scope_exit, hook>>
  /\ UNCHANGED alvars
  /\ UNCHANGED cbvars

XallocAmbigRoot ==
  /\ AnyCanCall
  /\ \E b \in Malloc :
       LET G == igc_xalloc_ambig_root(GC, b[1], b[2])
       IN /\ SetGC(G)
          /\ xroots' = xroots \cup {b}
  /\ UNCHANGED <<gc_info, specpdl, face_cache, matrix, rdstack, mem,
                 dump_loaded, inhibit, scope_exit, hook>>
  /\ UNCHANGED alvars
  /\ UNCHANGED cbvars

XfreeAmbigRoot ==
  /\ AnyCanCall
  /\ \E b \in xroots :
       /\ \E debug \in BOOLEAN : SetGC(igc_xfree_ambig_root(GC, b[1], debug))
       /\ xroots' = xroots \ {b}
  /\ UNCHANGED <<gc_info, specpdl, face_cache, matrix, rdstack, mem,
                 dump_loaded, inhibit, scope_exit, hook>>
  /\ UNCHANGED alvars
  /\ UNCHANGED cbvars

\* run_thread of a new thread t, whose binding stack was allocated by
\* Fmake_thread
ThreadAdd(t) ==
  /\ status = "running" /\ hook = NoHook
  /\ t # MainThread /\ gc_info[t] = NULL
  /\ \E b \in Malloc :
       LET G == igc_thread_add(GC, Cold(t), b)
       IN /\ SetGC(G)
          /\ gc_info' = IF Running(G) THEN [gc_info EXCEPT ![t] = G.ret] ELSE gc_info
          /\ specpdl' = [specpdl EXCEPT ![t] = b]
  /\ UNCHANGED <<face_cache, matrix, rdstack, mem, xroots, dump_loaded,
                 inhibit, scope_exit, hook>>
  /\ UNCHANGED alvars
  /\ UNCHANGED cbvars

\* the end of run_thread: the thread is removed and its binding stack freed
ThreadRemove(t) ==
  /\ CanCall(t)
  /\ t # MainThread /\ inhibit[t] = 0
  /\ SetGC(igc_thread_remove(GC, gc_info[t]))
  /\ gc_info' = [gc_info EXCEPT ![t] = NULL]
  /\ specpdl' = [specpdl EXCEPT ![t] = NoBlock]
  /\ alloc' = [alloc EXCEPT ![t] = NoAlloc]
  /\ calls' = [calls EXCEPT ![t] = <<>>]
  /\ log' = [log EXCEPT ![threads.node[gc_info[t]].d.cons_ap] = <<>>]
  /\ UNCHANGED <<face_cache, matrix, rdstack, mem, xroots, dump_loaded,
                 inhibit, scope_exit, hook, mps_buf, cons_mem, sym_mem>>
  /\ UNCHANGED cbvars

\* init_eval_once allocates the main thread's binding stack
igc_on_alloc_main_thread_specpdl(G, t, blk) == add_specpdl_root(G, t, blk)

AllocMainThreadSpecpdl ==
  /\ CanCall(MainThread)
  /\ specpdl[MainThread] = NoBlock
  /\ \E b \in Malloc :
       /\ SetGC(igc_on_alloc_main_thread_specpdl(GC, gc_info[MainThread], b))
       /\ specpdl' = [specpdl EXCEPT ![MainThread] = b]
  /\ UNCHANGED <<gc_info, face_cache, matrix, rdstack, mem, xroots,
                 dump_loaded, inhibit, scope_exit, hook>>
  /\ UNCHANGED alvars
  /\ UNCHANGED cbvars

PdumpLoaded ==
  /\ AnyCanCall
  /\ ~dump_loaded
  /\ SetGC(igc_on_pdump_loaded(GC))
  /\ dump_loaded' = TRUE
  /\ UNCHANGED <<gc_info, specpdl, face_cache, matrix, rdstack, mem, xroots,
                 inhibit, scope_exit, hook>>
  /\ UNCHANGED alvars
  /\ UNCHANGED cbvars

\* cache is the face_cache struct; ret is the handle stored in igc_info
igc_on_make_face_cache(G, cache) == add_area_root(G, cache.faces_by_id)

igc_on_free_face_cache(G, cache) == remove_root(G, cache.igc_info)

MakeFaceCache ==
  /\ AnyCanCall
  /\ face_cache.faces_by_id = NoBlock
  /\ \E b \in Malloc :
       LET G == igc_on_make_face_cache(GC, [face_cache EXCEPT !.faces_by_id = b])
       IN /\ SetGC(G)
          /\ face_cache' = [faces_by_id |-> b,
                             igc_info |-> IF Running(G) THEN G.ret ELSE NULL]
  /\ UNCHANGED <<gc_info, specpdl, matrix, rdstack, mem, xroots, dump_loaded,
                 inhibit, scope_exit, hook>>
  /\ UNCHANGED alvars
  /\ UNCHANGED cbvars

FreeFaceCache ==
  /\ AnyCanCall
  /\ face_cache.faces_by_id # NoBlock
  /\ SetGC(igc_on_free_face_cache(GC, face_cache))
  /\ face_cache' = [faces_by_id |-> NoBlock, igc_info |-> NULL]
  /\ UNCHANGED <<gc_info, specpdl, matrix, rdstack, mem, xroots, dump_loaded,
                 inhibit, scope_exit, hook>>
  /\ UNCHANGED alvars
  /\ UNCHANGED cbvars

(***************************************************************************)
(* Callers that pass a handle twice                                        *)
(***************************************************************************)
\* the start addresses a caller can pass to igc_xfree_ambig_root
Ptrs == { b[1] : b \in Blocks }

\* igc_on_mem_delete with the info field of mem_node m.  With keep, the
\* caller holds on to the handle after the call: mem then keeps an entry
\* without block for it.  An entry without block is a handle that was
\* deregistered before.
MemDeleteHandle(m) ==
  /\ AnyCanCall
  /\ m \in mem
  /\ \E outcome \in FreedNodeOutcomes, keep \in BOOLEAN :
       /\ SetGC(remove_root_handle(GC, m.info, outcome))
       /\ mem' = IF keep /\ m.blk # NoBlock
                 THEN (mem \ {m}) \cup {[blk |-> NoBlock, info |-> m.info]}
                 ELSE mem \ {m}
  /\ UNCHANGED <<gc_info, specpdl, face_cache, matrix, rdstack, xroots,
                 dump_loaded, inhibit, scope_exit, hook>>
  /\ UNCHANGED alvars
  /\ UNCHANGED cbvars

\* igc_xfree_ambig_root with pointer p, whether or not p came from
\* igc_xalloc_ambig_root and is still allocated
XfreeAmbigRootPtr(p) ==
  /\ AnyCanCall
  /\ \E debug \in BOOLEAN : SetGC(igc_xfree_ambig_root(GC, p, debug))
  /\ xroots' = { b \in xroots : b[1] # p }
  /\ UNCHANGED <<gc_info, specpdl, face_cache, matrix, rdstack, mem,
                 dump_loaded, inhibit, scope_exit, hook>>
  /\ UNCHANGED alvars
  /\ UNCHANGED cbvars

\* igc_on_free_face_cache, whether or not the cache has a root
FreeFaceCacheHandle ==
  /\ AnyCanCall
  /\ \E outcome \in FreedNodeOutcomes :
       SetGC(remove_root_handle(GC, face_cache.igc_info, outcome))
  /\ face_cache' = [faces_by_id |-> NoBlock, igc_info |-> NULL]
  /\ UNCHANGED <<gc_info, specpdl, matrix, rdstack, mem, xroots, dump_loaded,
                 inhibit, scope_exit, hook>>
  /\ UNCHANGED alvars
  /\ UNCHANGED cbvars

igc_on_free_glyph_matrix(G, m) ==
  IF m.igc_info # NULL THEN remove_root(G, m.igc_info) ELSE G

\* the matrix is freed; a matrix that was never adjusted has no rows and
\* no root
FreeGlyphMatrix ==
  /\ AnyCanCall
  /\ SetGC(igc_on_free_glyph_matrix(GC, matrix))
  /\ matrix' = [rows |-> NoBlock, igc_info |-> NULL]
  /\ UNCHANGED <<gc_info, specpdl, face_cache, rdstack, mem, xroots,
                 dump_loaded, inhibit, scope_exit, hook>>
  /\ UNCHANGED alvars
  /\ UNCHANGED cbvars

(***************************************************************************)
(* Root-reallocation hooks: IGC_WITH_PARKED (park; body; release)          *)
(***************************************************************************)
\* IGC_WITH_PARKED without mps_arena_park
IGC_WITH_PARKED_enter_mut(G) == G

\* the first clause of the for statement of IGC_WITH_PARKED
IGC_WITH_PARKED_enter(G) == mps_arena_park(G)
\* the third clause of the for statement of IGC_WITH_PARKED
IGC_WITH_PARKED_leave(G) == mps_arena_release(G)

\* eval.c has reallocated the binding stack of thread t and calls the hook
GrowSpecpdl(t) ==
  /\ CanCall(t)
  /\ specpdl[t] # NoBlock
  /\ \E b \in Realloc(specpdl[t]) : specpdl' = [specpdl EXCEPT ![t] = b]
  /\ hook' = [NoHook EXCEPT !.name = "grow_specpdl", !.t = t, !.pc = "park"]
  /\ UNCHANGED <<gcvars, gc_info, face_cache, matrix, rdstack, mem, xroots,
                 dump_loaded, inhibit, scope_exit>>
  /\ UNCHANGED alvars
  /\ UNCHANGED cbvars

\* xfaces.c has reallocated faces_by_id and calls the hook
FaceCacheChange ==
  /\ AnyCanCall
  /\ face_cache.faces_by_id # NoBlock
  /\ \E b \in Realloc(face_cache.faces_by_id) :
       face_cache' = [face_cache EXCEPT !.faces_by_id = b]
  /\ hook' = [NoHook EXCEPT !.name = "face_cache_change", !.pc = "park"]
  /\ UNCHANGED <<gcvars, gc_info, specpdl, matrix, rdstack, mem, xroots,
                 dump_loaded, inhibit, scope_exit>>
  /\ UNCHANGED alvars
  /\ UNCHANGED cbvars

\* dispnew.c has (re)allocated the rows of the matrix and calls the hook
AdjustGlyphMatrix ==
  /\ AnyCanCall
  /\ \E b \in Realloc(matrix.rows) : matrix' = [matrix EXCEPT !.rows = b]
  /\ hook' = [NoHook EXCEPT !.name = "adjust_glyph_matrix", !.pc = "park"]
  /\ UNCHANGED <<gcvars, gc_info, specpdl, face_cache, rdstack, mem, xroots,
                 dump_loaded, inhibit, scope_exit>>
  /\ UNCHANGED alvars
  /\ UNCHANGED cbvars

\* lread.c has (re)allocated the reader stack and calls the hook with the
\* handle it holds
GrowReadStack ==
  /\ AnyCanCall
  /\ \E b \in Realloc(rdstack.blk) \cup (ZeroSizeBlocks \ LiveBlocks) :
       rdstack' = [rdstack EXCEPT !.blk = b]
  /\ hook' = [NoHook EXCEPT !.name = "grow_read_stack", !.pc = "park",
                            !.info = rdstack.info]
  /\ UNCHANGED <<gcvars, gc_info, specpdl, face_cache, matrix, mem, xroots,
                 dump_loaded, inhibit, scope_exit>>
  /\ UNCHANGED alvars
  /\ UNCHANGED cbvars

HookPark ==
  /\ status = "running" /\ hook.pc = "park"
  /\ SetGC(IGC_WITH_PARKED_enter(GC))
  /\ hook' = [hook EXCEPT !.pc = "dereg"]
  /\ UNCHANGED <<rtvars, inhibit, scope_exit>>
  /\ UNCHANGED alvars
  /\ UNCHANGED cbvars

\* the first half of the body: the old root is removed
\* igc_on_grow_specpdl that forgets the old root without removing it
igc_on_grow_specpdl_remove_mut(G, t) ==
  [G EXCEPT !.threads.node[t].d.specpdl_root = NULL]

igc_on_grow_specpdl_remove(G, t) ==
  LET G1 == remove_root(G, G.threads.node[t].d.specpdl_root)
  IN IF Running(G1) THEN [G1 EXCEPT !.threads.node[t].d.specpdl_root = NULL] ELSE G1

igc_on_adjust_glyph_matrix_remove(G, m) ==
  IF m.igc_info # NULL THEN remove_root(G, m.igc_info) ELSE G

igc_on_grow_read_stack_remove(G, info) ==
  IF info # NULL THEN remove_root(G, info) ELSE G

HookDereg ==
  /\ status = "running" /\ hook.pc = "dereg"
  /\ hook' = [hook EXCEPT !.pc = "reg"]
  /\ \/ /\ hook.name = "grow_specpdl"
        /\ SetGC(igc_on_grow_specpdl_remove(GC, gc_info[hook.t]))
        /\ UNCHANGED face_cache
     \/ /\ hook.name = "face_cache_change"
        /\ SetGC(igc_on_free_face_cache(GC, face_cache))
        /\ face_cache' = [face_cache EXCEPT !.igc_info = NULL]
     \/ /\ hook.name = "adjust_glyph_matrix"
        /\ SetGC(igc_on_adjust_glyph_matrix_remove(GC, matrix))
        /\ UNCHANGED face_cache
     \/ /\ hook.name = "grow_read_stack"
        /\ SetGC(igc_on_grow_read_stack_remove(GC, hook.info))
        /\ UNCHANGED face_cache
  /\ UNCHANGED <<gc_info, specpdl, matrix, rdstack, mem, xroots, dump_loaded,
                 inhibit, scope_exit>>
  /\ UNCHANGED alvars
  /\ UNCHANGED cbvars

\* the second half of the body: the root for the new block is registered
igc_on_grow_specpdl_add(G, t, blk) == add_specpdl_root(G, t, blk)
igc_on_adjust_glyph_matrix_add(G, m) == add_area_root(G, m.rows)
igc_on_grow_read_stack_add(G, blk) == add_area_root(G, blk)

HookReg ==
  /\ status = "running" /\ hook.pc = "reg"
  /\ \/ /\ hook.name = "grow_specpdl"
        /\ SetGC(igc_on_grow_specpdl_add(GC, gc_info[hook.t], specpdl[hook.t]))
        /\ hook' = [hook EXCEPT !.pc = "release"]
        /\ UNCHANGED <<face_cache, matrix>>
     \/ /\ hook.name = "face_cache_change"
        /\ LET G == igc_on_make_face_cache(GC, face_cache)
           IN /\ SetGC(G)
              /\ face_cache' = IF Running(G) THEN [face_cache EXCEPT !.igc_info = G.ret]
                                ELSE face_cache
        /\ hook' = [hook EXCEPT !.pc = "release"]
        /\ UNCHANGED matrix
     \/ /\ hook.name = "adjust_glyph_matrix"
        /\ LET G == igc_on_adjust_glyph_matrix_add(GC, matrix)
           IN /\ SetGC(G)
              /\ matrix' = IF Running(G) THEN [matrix EXCEPT !.igc_info = G.ret]
                            ELSE matrix
        /\ hook' = [hook EXCEPT !.pc = "release"]
        /\ UNCHANGED face_cache
     \/ /\ hook.name = "grow_read_stack"
        /\ \E aver \in BOOLEAN :
           LET G0 == mps_root_create_area_args(GC, rdstack.blk[1], rdstack.blk[2], aver)
               G == IF Running(G0) THEN igc_on_grow_read_stack_add(G0, rdstack.blk)
                    ELSE G0
           IN /\ SetGC(G)
              /\ hook' = [hook EXCEPT !.pc = "release",
                                      !.info = IF Running(G) THEN G.ret ELSE @]
        /\ UNCHANGED <<face_cache, matrix>>
  /\ UNCHANGED <<gc_info, specpdl, rdstack, mem, xroots, dump_loaded, inhibit, scope_exit>>
  /\ UNCHANGED alvars
  /\ UNCHANGED cbvars

\* the hook returns; igc_on_grow_read_stack returns the new handle
HookRelease ==
  /\ status = "running" /\ hook.pc = "release"
  /\ SetGC(IGC_WITH_PARKED_leave(GC))
  /\ rdstack' = IF hook.name = "grow_read_stack"
                 THEN [rdstack EXCEPT !.info = hook.info] ELSE rdstack
  /\ hook' = NoHook
  /\ UNCHANGED <<gc_info, specpdl, face_cache, matrix, mem, xroots,
                 dump_loaded, inhibit, scope_exit>>
  /\ UNCHANGED alvars
  /\ UNCHANGED cbvars

(***************************************************************************)
(* Inhibit-GC scopes                                                       *)
(***************************************************************************)
\* release_arena without its call of mps_arena_release
release_arena_mut(G) == G
release_arena(G) == mps_arena_release(G)

\* parks the arena; the unwind entry for release_arena is counted in inhibit
igc_inhibit_garbage_collection(G) == mps_arena_park(G)

InhibitGC(t) ==
  /\ CanCall(t)
  /\ inhibit[t] < MaxInhibit
  /\ SetGC(igc_inhibit_garbage_collection(GC))
  /\ inhibit' = [inhibit EXCEPT ![t] = @ + 1]
  /\ scope_exit' = [scope_exit EXCEPT ![t] = "none"]
  /\ UNCHANGED <<rtvars, hook>>
  /\ UNCHANGED alvars
  /\ UNCHANGED cbvars

\* unbind_to (count): the innermost scope of thread t is left normally and
\* its unwind entry runs
UnbindTo(t) ==
  /\ CanCall(t)
  /\ inhibit[t] > 0
  /\ SetGC(release_arena(GC))
  /\ inhibit' = [inhibit EXCEPT ![t] = @ - 1]
  /\ scope_exit' = [scope_exit EXCEPT ![t] = "normal"]
  /\ UNCHANGED <<rtvars, hook>>
  /\ UNCHANGED alvars
  /\ UNCHANGED cbvars

\* an error is signalled in thread t and caught outside of k of its scopes:
\* the unwind entries of these scopes run, innermost first
SignalUnwind(t) ==
  /\ CanCall(t)
  /\ \E k \in 1..inhibit[t] :
       /\ SetGC(release_arena(GC))
       /\ inhibit' = [inhibit EXCEPT ![t] = @ - k]
  /\ scope_exit' = [scope_exit EXCEPT ![t] = "unwind"]
  /\ UNCHANGED <<rtvars, hook>>
  /\ UNCHANGED alvars
  /\ UNCHANGED cbvars

(***************************************************************************)
(* Allocation: igc_make_cons and igc_alloc_symbol                          *)
(***************************************************************************)
Lisp_Symbol == 0
Lisp_Int0 == 2
Lisp_Cons == 3
\* the contents of a word no one has written since it was reserved
Unwritten == -1
Qnil == 0
\* make_fixnum (n)
make_fixnum(n) == n * 4 + Lisp_Int0
\* the <<car, cdr>> arguments of the igc_make_cons calls
ConsArgs == { <<Qnil, make_fixnum(1)>>, <<make_fixnum(1), Qnil>> }

\* the addresses of the k-th object of the cons pool and of the symbol pool
ConsPoolBase == 4096
SizeofCons == 16
SymbolPoolBase == 8192
SizeofSymbol == 48
ConsAddr(k) == ConsPoolBase + (k - 1) * SizeofCons
SymbolAddr(k) == SymbolPoolBase + (k - 1) * SizeofSymbol
ConsIndex(p) == (p - ConsPoolBase) \div SizeofCons + 1
SymbolIndex(p) == (p - SymbolPoolBase) \div SizeofSymbol + 1

NewCons == [car |-> Unwritten, cdr |-> Unwritten]
NewSymbol == [name |-> Unwritten, value |-> Unwritten, function |-> Unwritten,
              plist |-> Unwritten, package |-> Unwritten]

make_lisp_ptr(ptr, tag) == ptr + tag
make_lisp_symbol(sym) == (sym - LispSym[1]) + Lisp_Symbol

\* the cons allocation point of the head of the thread registry
current_cons_ap_mut(t) == threads.node[threads.head].d.cons_ap

\* t is a Lisp thread; its record is current_thread->gc_info
current_cons_ap(t) == threads.node[gc_info[t]].d.cons_ap
current_symbol_ap(t) == threads.node[gc_info[t]].d.symbol_ap

\* loops that end after their first commit, and loops that end with their
\* first failed commit
commit_loop_again_mut(ok) == FALSE
commit_loop_again_neg(ok) == ok

\* the condition of the do-while loops: ok is the result of mps_commit
commit_loop_again(ok) == ~ok

\* mps_commit succeeds unless a flip happened since the reserve
mps_commit(buf) == ~buf.flipped

\* igc_make_cons without its store to the cdr
cons_init_mut(c, car, cdr) == [c EXCEPT !.car = car]

\* the stores between reserve and commit in igc_make_cons
cons_init(c, car, cdr) == [c EXCEPT !.car = car, !.cdr = cdr]
\* igc_alloc_symbol stores nothing between reserve and commit
symbol_init(sym) == sym

MakeCons(t) ==
  /\ CanCall(t)
  /\ Len(calls[t]) < MaxCalls
  /\ \E args \in ConsArgs :
       /\ alloc' = [alloc EXCEPT ![t] = [NoAlloc EXCEPT !.pc = "reserve", !.fn = "cons",
                                                         !.ap = current_cons_ap(t),
                                                         !.car = args[1], !.cdr = args[2]]]
       /\ calls' = [calls EXCEPT ![t] = Append(@, args)]
  /\ UNCHANGED <<gcvars, rtvars, inhibit, scope_exit, hook, mps_buf, cons_mem, sym_mem, log>>
  /\ UNCHANGED cbvars

AllocSymbol(t) ==
  /\ CanCall(t)
  /\ Len(calls[t]) < MaxCalls
  /\ alloc' = [alloc EXCEPT ![t] = [NoAlloc EXCEPT !.pc = "reserve", !.fn = "symbol",
                                                    !.ap = current_symbol_ap(t)]]
  /\ calls' = [calls EXCEPT ![t] = Append(@, <<>>)]
  /\ UNCHANGED <<gcvars, rtvars, inhibit, scope_exit, hook, mps_buf, cons_mem, sym_mem, log>>
  /\ UNCHANGED cbvars

\* mps_reserve and IGC_CHECK_RES: the next object of the pool, or a failure
\* result when the pool is exhausted
Reserve(t) ==
  /\ status = "running" /\ alloc[t].pc = "reserve"
  /\ LET full == IF alloc[t].fn = "cons" THEN Len(cons_mem) >= MaxReserves
                  ELSE Len(sym_mem) >= MaxReserves
         G == IGC_CHECK_RES([GC EXCEPT !.res = IF full THEN MPS_RES_FAIL ELSE MPS_RES_OK])
         p == IF alloc[t].fn = "cons" THEN ConsAddr(Len(cons_mem) + 1)
              ELSE SymbolAddr(Len(sym_mem) + 1)
     IN /\ SetGC(G)
        /\ IF Running(G)
           THEN /\ alloc' = [alloc EXCEPT ![t].p = p, ![t].pc = "init",
                                           ![t].tries = IF @ < MaxReserves THEN @ + 1 ELSE @]
                /\ mps_buf' = [mps_buf EXCEPT ![alloc[t].ap] = [p |-> p, flipped |-> FALSE]]
                /\ cons_mem' = IF alloc[t].fn = "cons" THEN Append(cons_mem, NewCons)
                               ELSE cons_mem
                /\ sym_mem' = IF alloc[t].fn = "symbol" THEN Append(sym_mem, NewSymbol)
                              ELSE sym_mem
           ELSE UNCHANGED <<alloc, mps_buf, cons_mem, sym_mem>>
  /\ UNCHANGED <<rtvars, inhibit, scope_exit, hook, log, calls>>
  /\ UNCHANGED cbvars

\* the body of the loop after the reserve
InitObject(t) ==
  /\ status = "running" /\ alloc[t].pc = "init"
  /\ cons_mem' = IF alloc[t].fn = "cons"
                 THEN [cons_mem EXCEPT ![ConsIndex(alloc[t].p)] =
                         cons_init(@, alloc[t].car, alloc[t].cdr)]
                 ELSE cons_mem
  /\ sym_mem' = IF alloc[t].fn = "symbol"
                THEN [sym_mem EXCEPT ![SymbolIndex(alloc[t].p)] = symbol_init(@)]
                ELSE sym_mem
  /\ alloc' = [alloc EXCEPT ![t].pc = "commit"]
  /\ UNCHANGED <<gcvars, rtvars, inhibit, scope_exit, hook, mps_buf, log, calls>>
  /\ UNCHANGED cbvars

\* mps_commit and the loop condition
Commit(t) ==
  /\ status = "running" /\ alloc[t].pc = "commit"
  /\ LET ok == mps_commit(mps_buf[alloc[t].ap])
     IN /\ alloc' = [alloc EXCEPT ![t].pc = IF commit_loop_again(ok) THEN "reserve"
                                             ELSE "return"]
        /\ log' = IF ok THEN [log EXCEPT ![alloc[t].ap] = Append(@, alloc[t].p)]
                  ELSE log
  /\ mps_buf' = [mps_buf EXCEPT ![alloc[t].ap] = NoBuf]
  /\ UNCHANGED <<gcvars, rtvars, inhibit, scope_exit, hook, cons_mem, sym_mem, calls>>
  /\ UNCHANGED cbvars

\* the return statement; the caller is left with the function's value
Return(t) ==
  /\ status = "running" /\ alloc[t].pc = "return"
  /\ alloc' = [alloc EXCEPT ![t] = [NoAlloc EXCEPT
                   !.fn = alloc[t].fn,
                   !.val = IF alloc[t].fn = "cons"
                           THEN make_lisp_ptr(alloc[t].p, Lisp_Cons)
                           ELSE make_lisp_symbol(alloc[t].p)]]
  /\ UNCHANGED <<gcvars, rtvars, inhibit, scope_exit, hook, mps_buf, cons_mem, sym_mem, log,
                 calls>>
  /\ UNCHANGED cbvars

(***************************************************************************)
(* The collector                                                           *)
(***************************************************************************)
\* A flip of the collector: every reservation that is not committed is
\* invalidated and its memory is no longer the mutator's.
FlipBuffers(B) == [a \in APs |-> IF B[a].p # NULL THEN [B[a] EXCEPT !.flipped = TRUE]
                                  ELSE B[a]]
Outstanding(B) == { B[a].p : a \in { x \in APs : B[x].p # NULL /\ ~B[x].flipped } }
FlipCons(M, B) ==
  [k \in 1..Len(M) |-> IF ConsAddr(k) \in Outstanding(B) THEN NewCons ELSE M[k]]
FlipSymbols(M, B) ==
  [k \in 1..Len(M) |-> IF SymbolAddr(k) \in Outstanding(B) THEN NewSymbol ELSE M[k]]

\* the collector runs only while the arena is not parked
CollectorCanRun == status = "running" /\ ~parked

\* the collector starts a collection on its own, from inside an MPS call
MpsFlip ==
  /\ CollectorCanRun
  /\ Outstanding(mps_buf) # {}
  /\ mps_buf' = FlipBuffers(mps_buf)
  /\ cons_mem' = FlipCons(cons_mem, mps_buf)
  /\ sym_mem' = FlipSymbols(sym_mem, mps_buf)
  /\ UNCHANGED <<gcvars, rtvars, inhibit, scope_exit, hook, alloc, log, calls>>
  /\ UNCHANGED cbvars

\* the objects of the cons pool that some allocation point has committed
CommittedCons == UNION { { log[a][i] : i \in 1..Len(log[a]) } : a \in APs }

\* the collector recycles the memory of a reservation whose commit failed:
\* the last object of the cons pool, if it was never committed and no
\* allocation point holds it any more
MpsReclaim ==
  /\ CollectorCanRun
  /\ cons_mem # <<>>
  /\ LET p == ConsAddr(Len(cons_mem))
     IN /\ p \notin CommittedCons
        /\ \A a \in APs : mps_buf[a].p # p
  /\ cons_mem' = SubSeq(cons_mem, 1, Len(cons_mem) - 1)
  /\ UNCHANGED <<gcvars, rtvars, inhibit, scope_exit, hook, alloc, mps_buf,
                 sym_mem, log, calls>>
  /\ UNCHANGED cbvars

\* igc_on_idle: mps_arena_step lets the collector work unless it is parked
IgcOnIdle(t) ==
  /\ CanCall(t)
  /\ IF CollectorCanRun
     THEN /\ mps_buf' = FlipBuffers(mps_buf)
          /\ cons_mem' = FlipCons(cons_mem, mps_buf)
          /\ sym_mem' = FlipSymbols(sym_mem, mps_buf)
     ELSE UNCHANGED <<mps_buf, cons_mem, sym_mem>>
  /\ UNCHANGED <<gcvars, rtvars, inhibit, scope_exit, hook, alloc, log, calls>>
  /\ UNCHANGED cbvars

(***************************************************************************)
(* Scanning: IGC_FIX                                                       *)
(***************************************************************************)
WordMod == 2 ^ WordBits
GCALIGNMENT == 8
\* ~VALMASK: the three lowest bits of a word
IGC_TAG_MASK == 7
Lisp_Int1 == 6

RECURSIVE BitAnd(_, _)
BitAnd(a, b) ==
  IF a = 0 \/ b = 0 THEN 0
  ELSE (a % 2) * (b % 2) + 2 * BitAnd(a \div 2, b \div 2)
RECURSIVE BitOr(_, _)
BitOr(a, b) ==
  IF a = 0 THEN b ELSE IF b = 0 THEN a
  ELSE (IF a % 2 = 1 \/ b % 2 = 1 THEN 1 ELSE 0) + 2 * BitOr(a \div 2, b \div 2)
RECURSIVE BitXor(_, _)
BitXor(a, b) ==
  IF a = 0 THEN b ELSE IF b = 0 THEN a
  ELSE (IF a % 2 # b % 2 THEN 1 ELSE 0) + 2 * BitXor(a \div 2, b \div 2)

\* IGC_VAL that does not mask the tag bits out
IGC_VAL_mut(x) == x

IGC_TAG(x) == BitAnd(x, IGC_TAG_MASK)
IGC_VAL(x) == BitAnd(x, WordMod - 1 - IGC_TAG_MASK)

\* the payloads of tagged words: the words whose three lowest bits are zero
Payloads == { GCALIGNMENT * k : k \in 0..(WordMod \div GCALIGNMENT - 1) }
\* no word has been tagged yet
NoCodec == [payload |-> 0, tag |-> 0, word |-> 0, dtag |-> 0, dval |-> 0, off |-> 0]

\* a payload is tagged, and the word is taken apart again: by IGC_TAG and
\* IGC_VAL, and as IGC_FIX does it, with word ^ tag
TagWord ==
  /\ codec = NoCodec
  /\ \E pl \in Payloads, tag \in 0..IGC_TAG_MASK :
       LET word == BitOr(pl, tag)
       IN codec' = [payload |-> pl, tag |-> tag, word |-> word,
                    dtag |-> IGC_TAG(word), dval |-> IGC_VAL(word),
                    off |-> BitXor(word, BitAnd(word, IGC_TAG_MASK))]
  /\ UNCHANGED <<gcvars, rtvars, inhibit, scope_exit, hook, alvars, finvars, ropvars>>
  /\ UNCHANGED <<scan, fmt, hm, td>>

\* the reference handed to MPS_FIX1 / MPS_FIX2 for a word with this tag
IGC_FIX_ref(word, tag) ==
  LET off == BitXor(word, tag)
  IN IF tag = Lisp_Symbol THEN (LispSym[1] + off) % WordMod ELSE off

\* word written back without its tag
IGC_FIX_store_mut(ref, tag) == ref

\* the reference of the object after the referent written back
IGC_FIX_store_next(ref, tag) == BitOr((ref + SizeofCons) % WordMod, tag)

\* *p_ = (mps_word_t) ref | tag
IGC_FIX_store(ref, tag) == BitOr(ref, tag)

\* a fixed symbol reference written back as an address, not as an offset
IGC_FIX_encode_mut(ref, tag) == ref

\* the reference after MPS_FIX2, made an offset again for a symbol
IGC_FIX_encode(ref, tag) ==
  IF tag = Lisp_Symbol THEN (ref + WordMod - LispSym[1]) % WordMod ELSE ref

\* IGC_FIX that hands every word to MPS_FIX2, whatever its tag and whatever
\* MPS_FIX1 answers
IGC_FIX_mut(word, fix1, res, new) ==
  LET tag == BitAnd(word, IGC_TAG_MASK)
  IN [before |-> word, after |-> IGC_FIX_store(IGC_FIX_encode(new, tag), tag),
      tag |-> tag, ref |-> IGC_FIX_ref(word, tag), fix1 |-> fix1, fix2 |-> TRUE,
      new |-> new, ret |-> "next"]

\* IGC_FIX on a slot that holds word.  fix1 is the answer of MPS_FIX1, res
\* the result of MPS_FIX2 and new the reference MPS_FIX2 leaves in ref.
\* ret is the result the scan function returns with, or "next" when the
\* scan goes on.
IGC_FIX(word, fix1, res, new) ==
  LET tag == BitAnd(word, IGC_TAG_MASK)
      ref == IGC_FIX_ref(word, tag)
      none == [before |-> word, after |-> word, tag |-> tag, ref |-> NULL,
               fix1 |-> FALSE, fix2 |-> FALSE, new |-> NULL, ret |-> "next"]
  IN IF tag # Lisp_Int0 /\ tag # Lisp_Int1
     THEN IF fix1
          THEN IF res # MPS_RES_OK
               THEN [none EXCEPT !.ref = ref, !.fix1 = TRUE, !.fix2 = TRUE,
                                 !.ret = "res"]
               ELSE [none EXCEPT !.ref = ref, !.fix1 = TRUE, !.fix2 = TRUE,
                                 !.new = new,
                                 !.after = IGC_FIX_store(IGC_FIX_encode(new, tag), tag)]
          ELSE [none EXCEPT !.ref = ref]
     ELSE none

\* the words a scanned slot can hold: every tag on a payload that is zero,
\* small, the address of an object of a pool, or an offset from lispsym
FixPayloads ==
  { 0, GCALIGNMENT, ConsAddr(1), ConsAddr(2),
    (SymbolAddr(1) + WordMod - LispSym[1]) % WordMod,
    (SymbolAddr(2) + WordMod - LispSym[1]) % WordMod,
    (LispSym[1] - 2 * GCALIGNMENT + WordMod - LispSym[1]) % WordMod }
FixWords == { pl + tag : pl \in FixPayloads, tag \in 0..IGC_TAG_MASK }
\* where MPS_FIX2 can leave the reference when the object has moved: the
\* objects of the pools' formats are aligned to GCALIGNMENT
FixTargets == { a \in { 0, LispSym[1] - 2 * GCALIGNMENT, LispSym[1], ConsAddr(1),
                         ConsAddr(3), SymbolAddr(1), SymbolAddr(3) } :
                  a % GCALIGNMENT = 0 }

\* a slot that holds a fixnum, which IGC_FIX passes over
NoSlot == [before |-> Lisp_Int0, after |-> Lisp_Int0, tag |-> Lisp_Int0, ref |-> NULL,
           fix1 |-> FALSE, fix2 |-> FALSE, new |-> NULL, ret |-> "next"]

\* a scan function applies IGC_FIX to one slot
ScanFix ==
  /\ CollectorCanRun
  /\ \E word \in FixWords, fix1 \in BOOLEAN, res \in {MPS_RES_OK, MPS_RES_FAIL},
        moved \in BOOLEAN, new \in FixTargets :
       slot' = IGC_FIX(word, fix1, res,
                       IF moved THEN new
                       ELSE IGC_FIX_ref(word, BitAnd(word, IGC_TAG_MASK)))
  /\ UNCHANGED <<gcvars, rtvars, inhibit, scope_exit, hook, alvars>>
  /\ UNCHANGED <<fin, msgq, runs, drain, xvars>>

(***************************************************************************)
(* The scan functions over a memory of words                               *)
(***************************************************************************)
\* the addresses of the static variables fwdsig and padsig
IGC_FWDSIG == 1060
IGC_PADSIG == 1064
\* where the scanned area starts, and where the words are that the words
\* of the area point to
ScanBase == 512
ScanAux == 640
WordSize == 8
\* enum symbol_redirect; the redirect field is in bits 1 and 2 of the first
\* word of a symbol
SYMBOL_PLAINVAL == 0
Redirect(w) == (w \div 2) % 4
\* the word offsets of the fields of struct Lisp_Symbol
SymName == 1
SymValue == 2
SymFunction == 3
SymPlist == 4
SymPackage == 5
\* ARRAYELTS (face->lface)
LfaceSize == 2

\* the references that are into a pool of the arena: MPS_FIX1 answers yes
PoolRefs == { ConsAddr(1), ConsAddr(2), SymbolAddr(1) }
MPS_FIX1(ref) == ref \in PoolRefs
\* how far MPS_FIX2 moves an object when it moves it
MoveBy == 6 * SizeofCons
\* what the collector answers during one scan: the reference for which
\* MPS_FIX2 fails, if any, and whether the objects move
Oracles == [failref : PoolRefs \cup {NULL}, move : BOOLEAN]
MPS_FIX2_res(O, ref) == IF ref = O.failref THEN MPS_RES_FAIL ELSE MPS_RES_OK
MPS_FIX2_ref(O, ref) == IF O.move THEN (ref + MoveBy) % WordMod ELSE ref

\* a scan function at its start: the memory, the result it has returned
\* with, and the slots IGC_FIX was applied to, in order
ScanStart(M) == [mem |-> M, res |-> MPS_RES_OK, seen |-> <<>>]

\* a scan function that goes on after IGC_FIX has returned from it
scan_returned_mut(S) == FALSE

\* return res inside IGC_FIX has ended the scan function
scan_returned(S) == S.res # MPS_RES_OK

\* IGC_FIX (ss, a)
IGC_FIX_at(S, a, O) ==
  IF scan_returned(S) THEN S
  ELSE LET word == S.mem[a]
           tag == BitAnd(word, IGC_TAG_MASK)
           ref == IGC_FIX_ref(word, tag)
           f == IGC_FIX(word, MPS_FIX1(ref), MPS_FIX2_res(O, ref), MPS_FIX2_ref(O, ref))
       IN [mem |-> [S.mem EXCEPT ![a] = f.after],
           res |-> IF f.ret = "res" THEN MPS_FIX2_res(O, ref) ELSE MPS_RES_OK,
           seen |-> Append(S.seen, [slot |-> a, word |-> word,
                                    asked |-> (tag # Lisp_Int0 /\ tag # Lisp_Int1),
                                    ref |-> f.ref, fix2 |-> f.fix2])]

is_forwarded(M, addr) == IF M[addr] = IGC_FWDSIG THEN M[addr + WordSize] ELSE NULL

\* is_padding that takes no object for padding
is_padding_mut(M, addr) == FALSE

is_padding(M, addr) == M[addr] = IGC_PADSIG

RECURSIVE cons_scan_loop(_, _, _, _)
cons_scan_loop(S, cons, limit, O) ==
  IF scan_returned(S) \/ ~(cons < limit) THEN S
  ELSE IF is_forwarded(S.mem, cons) # NULL \/ is_padding(S.mem, cons)
       THEN cons_scan_loop(S, cons + SizeofCons, limit, O)
       ELSE cons_scan_loop(IGC_FIX_at(IGC_FIX_at(S, cons, O), cons + WordSize, O),
                           cons + SizeofCons, limit, O)

cons_scan(M, base, limit, O) == cons_scan_loop(ScanStart(M), base, limit, O)

\* symbol_scan that fixes the value slot whatever the redirect field says
symbol_scan_value_mut(S, sym, O) == IGC_FIX_at(S, sym + SymValue * WordSize, O)

\* if (sym->u.s.redirect == SYMBOL_PLAINVAL) IGC_FIX (ss, &sym->u.s.val.value)
symbol_scan_value(S, sym, O) ==
  IF scan_returned(S) THEN S
  ELSE IF Redirect(S.mem[sym]) = SYMBOL_PLAINVAL
       THEN IGC_FIX_at(S, sym + SymValue * WordSize, O)
       ELSE S

RECURSIVE symbol_scan_loop(_, _, _, _)
symbol_scan_loop(S, sym, limit, O) ==
  IF scan_returned(S) \/ ~(sym < limit) THEN S
  ELSE IF is_forwarded(S.mem, sym) # NULL \/ is_padding(S.mem, sym)
       THEN symbol_scan_loop(S, sym + SizeofSymbol, limit, O)
       ELSE LET S1 == IGC_FIX_at(S, sym + SymName * WordSize, O)
                S2 == symbol_scan_value(S1, sym, O)
                S3 == IGC_FIX_at(S2, sym + SymFunction * WordSize, O)
                S4 == IGC_FIX_at(S3, sym + SymPlist * WordSize, O)
                S5 == IGC_FIX_at(S4, sym + SymPackage * WordSize, O)
            IN symbol_scan_loop(S5, sym + SizeofSymbol, limit, O)

symbol_scan(M, base, limit, O) == symbol_scan_loop(ScanStart(M), base, limit, O)

RECURSIVE scan_staticvec_loop(_, _, _, _)
scan_staticvec_loop(S, p, end, O) ==
  IF scan_returned(S) \/ ~(p < end) THEN S
  ELSE scan_staticvec_loop(IF S.mem[p] # NULL THEN IGC_FIX_at(S, S.mem[p], O) ELSE S,
                           p + WordSize, end, O)

scan_staticvec(M, start, end, O) == scan_staticvec_loop(ScanStart(M), start, end, O)

\* for (i = 0; i < ARRAYELTS (face->lface); ++i) IGC_FIX (ss, &face->lface[i])
RECURSIVE scan_lface(_, _, _, _)
scan_lface(S, face, i, O) ==
  IF scan_returned(S) \/ ~(i < LfaceSize) THEN S
  ELSE scan_lface(IGC_FIX_at(S, face + i * WordSize, O), face, i + 1, O)

RECURSIVE scan_faces_by_id_loop(_, _, _, _)
scan_faces_by_id_loop(S, p, end, O) ==
  IF scan_returned(S) \/ ~(p < end) THEN S
  ELSE scan_faces_by_id_loop(IF S.mem[p] # NULL THEN scan_lface(S, S.mem[p], 0, O) ELSE S,
                             p + WordSize, end, O)

scan_faces_by_id(M, start, end, O) == scan_faces_by_id_loop(ScanStart(M), start, end, O)

\* for (; glyph < end; ++glyph) IGC_FIX (ss, &glyph->object)
RECURSIVE scan_glyphs(_, _, _, _)
scan_glyphs(S, glyph, end, O) ==
  IF scan_returned(S) \/ ~(glyph < end) THEN S
  ELSE scan_glyphs(IGC_FIX_at(S, glyph, O), glyph + WordSize, end, O)

\* a glyph_row is its glyphs[LEFT_MARGIN_AREA] and its glyphs[LAST_AREA]
SizeofGlyphRow == 2 * WordSize
RECURSIVE scan_glyph_rows_loop(_, _, _, _)
scan_glyph_rows_loop(S, row, end, O) ==
  IF scan_returned(S) \/ ~(row < end) THEN S
  ELSE scan_glyph_rows_loop(scan_glyphs(S, S.mem[row], S.mem[row + WordSize], O),
                            row + SizeofGlyphRow, end, O)

scan_glyph_rows(M, start, end, O) == scan_glyph_rows_loop(ScanStart(M), start, end, O)

\* mps_scan_area_masked, the scan function of the roots of make_ambig_root:
\* every word of the area is a reference once the bits of the mask are
\* taken off it, and gets them back when it is written
RECURSIVE mps_scan_area_masked_loop(_, _, _, _, _)
mps_scan_area_masked_loop(S, p, limit, mask, O) ==
  IF scan_returned(S) \/ ~(p < limit) THEN S
  ELSE LET word == S.mem[p]
           tag == BitAnd(word, mask)
           ref == BitAnd(word, WordMod - 1 - mask)
           res == IF MPS_FIX1(ref) THEN MPS_FIX2_res(O, ref) ELSE MPS_RES_OK
           new == IF MPS_FIX1(ref) /\ res = MPS_RES_OK
                  THEN BitOr(MPS_FIX2_ref(O, ref), tag) ELSE word
       IN mps_scan_area_masked_loop(
            [mem |-> [S.mem EXCEPT ![p] = new], res |-> res,
             seen |-> Append(S.seen, [slot |-> p, word |-> word, asked |-> TRUE,
                                      ref |-> ref, fix2 |-> MPS_FIX1(ref)])],
            p + WordSize, limit, mask, O)

mps_scan_area_masked(M, base, limit, mask, O) ==
  mps_scan_area_masked_loop(ScanStart(M), base, limit, mask, O)

\* the words a slot can hold: a fixnum, a cons, a second cons, a symbol as
\* offset from lispsym, and a vector outside of the arena
ScanWords ==
  { make_fixnum(1), ConsAddr(1) + Lisp_Cons, ConsAddr(2) + Lisp_Cons,
    make_lisp_symbol(SymbolAddr(1)), 256 + 5 }
\* the first words of objects: those of the slots and the two signatures
FirstWords == ScanWords \cup { IGC_FWDSIG, IGC_PADSIG }

\* the number of objects of the pool in a scanned range
NumScanObjects == 2
Range(base, n) == { base + k * WordSize : k \in 0..(n - 1) }

\* the area has not been scanned a second time
NoRescan == [done |-> FALSE, O |-> [failref |-> NULL, move |-> FALSE], after |-> <<>>,
             res |-> MPS_RES_OK]
NoScan == [fn |-> "none", base |-> NULL, limit |-> NULL, O |-> [failref |-> NULL, move |-> FALSE],
           before |-> <<>>, after |-> <<>>, res |-> MPS_RES_OK, seen |-> <<>>,
           again |-> NoRescan]
Scanned(fn, base, limit, O, M, S) ==
  [fn |-> fn, base |-> base, limit |-> limit, O |-> O, before |-> M, after |-> S.mem,
   res |-> S.res, seen |-> S.seen, again |-> NoRescan]

ScanUnchanged ==
  UNCHANGED <<gcvars, rtvars, inhibit, scope_exit, hook, alvars, finvars, ropvars, codec, fmt, hm, td>>

\* MPS calls cons_scan for a range of objects of the cons pool
ScanCons ==
  /\ scan = NoScan
  /\ \E n \in 1..NumScanObjects, O \in Oracles :
       \E first \in [0..(NumScanObjects - 1) -> FirstWords],
          second \in [0..(NumScanObjects - 1) -> ScanWords] :
         LET M == [a \in Range(ScanBase, 2 * NumScanObjects) |->
                     IF ((a - ScanBase) \div WordSize) % 2 = 0
                     THEN first[(a - ScanBase) \div SizeofCons]
                     ELSE second[(a - ScanBase) \div SizeofCons]]
             limit == ScanBase + n * SizeofCons
         IN scan' = Scanned("cons_scan", ScanBase, limit, O, M,
                            cons_scan(M, ScanBase, limit, O))
  /\ ScanUnchanged

\* MPS calls symbol_scan for a range of the symbol pool that holds two
\* objects; the fields of the second all hold the same word
ScanSymbol ==
  /\ scan = NoScan
  /\ \E O \in Oracles, first \in {IGC_FWDSIG, IGC_PADSIG} \cup { 2 * r : r \in 0..3 },
        fields \in [SymName..SymPackage -> {make_fixnum(1), ConsAddr(1) + Lisp_Cons,
                                            make_lisp_symbol(SymbolAddr(1))}],
        first2 \in {IGC_PADSIG, 2 * SYMBOL_PLAINVAL, 2},
        v2 \in {make_fixnum(1), ConsAddr(2) + Lisp_Cons} :
       LET second == ScanBase + SizeofSymbol
           M == [a \in Range(ScanBase, 2 * (SizeofSymbol \div WordSize)) |->
                   IF a = ScanBase THEN first
                   ELSE IF a < second THEN fields[(a - ScanBase) \div WordSize]
                   ELSE IF a = second THEN first2 ELSE v2]
           limit == ScanBase + 2 * SizeofSymbol
       IN scan' = Scanned("symbol_scan", ScanBase, limit, O, M,
                          symbol_scan(M, ScanBase, limit, O))
  /\ ScanUnchanged

\* the format's scan function of the pool the area belongs to
format_scan(fn, M, base, limit, O) ==
  IF fn = "cons_scan" THEN cons_scan(M, base, limit, O)
  ELSE symbol_scan(M, base, limit, O)

\* MPS calls the scan function again for an area it has scanned, after a
\* scan that returned a failure result or in a later collection
Rescan ==
  /\ scan.fn \in {"cons_scan", "symbol_scan"} /\ ~scan.again.done
  /\ \E O \in Oracles :
       LET S == format_scan(scan.fn, scan.after, scan.base, scan.limit, O)
       IN scan' = [scan EXCEPT !.again = [done |-> TRUE, O |-> O, after |-> S.mem,
                                          res |-> S.res]]
  /\ ScanUnchanged

\* MPS calls scan_staticvec for staticvec, whose entries are null or the
\* addresses of variables
ScanStaticvec ==
  /\ scan = NoScan
  /\ \E O \in Oracles, p1 \in {NULL, ScanAux}, p2 \in {NULL, ScanAux + WordSize},
        v1 \in ScanWords, v2 \in ScanWords :
       LET M == [a \in Range(ScanBase, 2) \cup Range(ScanAux, 2) |->
                   IF a = ScanBase THEN p1
                   ELSE IF a = ScanBase + WordSize THEN p2
                   ELSE IF a = ScanAux THEN v1 ELSE v2]
           end == ScanBase + 2 * WordSize
       IN scan' = Scanned("scan_staticvec", ScanBase, end, O, M,
                          scan_staticvec(M, ScanBase, end, O))
  /\ ScanUnchanged

\* MPS calls scan_faces_by_id for faces_by_id, whose entries are null or the
\* addresses of faces
ScanFacesById ==
  /\ scan = NoScan
  /\ \E O \in Oracles, p1 \in {NULL, ScanAux},
        p2 \in {NULL, ScanAux + LfaceSize * WordSize},
        lface \in [Range(ScanAux, 2 * LfaceSize) ->
                     {make_fixnum(1), ConsAddr(1) + Lisp_Cons,
                      make_lisp_symbol(SymbolAddr(1))}] :
       LET M == [a \in Range(ScanBase, 2) \cup Range(ScanAux, 2 * LfaceSize) |->
                   IF a = ScanBase THEN p1
                   ELSE IF a = ScanBase + WordSize THEN p2
                   ELSE lface[a]]
           end == ScanBase + 2 * WordSize
       IN scan' = Scanned("scan_faces_by_id", ScanBase, end, O, M,
                          scan_faces_by_id(M, ScanBase, end, O))
  /\ ScanUnchanged

\* MPS calls scan_glyph_rows for the rows of a matrix with one row, whose
\* glyphs are among two glyphs
ScanGlyphRows ==
  /\ scan = NoScan
  /\ \E O \in Oracles, left \in {ScanAux, ScanAux + WordSize},
        last \in {ScanAux + WordSize, ScanAux + 2 * WordSize},
        v1 \in ScanWords, v2 \in ScanWords :
       LET M == [a \in Range(ScanBase, 2) \cup Range(ScanAux, 2) |->
                   IF a = ScanBase THEN left
                   ELSE IF a = ScanBase + WordSize THEN last
                   ELSE IF a = ScanAux THEN v1 ELSE v2]
           end == ScanBase + SizeofGlyphRow
       IN scan' = Scanned("scan_glyph_rows", ScanBase, end, O, M,
                          scan_glyph_rows(M, ScanBase, end, O))
  /\ ScanUnchanged

\* MPS scans the area of a root made by make_ambig_root; an ambiguous
\* reference keeps its object where it is
ScanAmbigRoot ==
  /\ scan = NoScan
  /\ \E O \in { o \in Oracles : ~o.move }, v1 \in ScanWords, v2 \in ScanWords :
       LET M == [a \in Range(ScanBase, 2) |-> IF a = ScanBase THEN v1 ELSE v2]
           end == ScanBase + 2 * WordSize
       IN scan' = Scanned("mps_scan_area_masked", ScanBase, end, O, M,
                          mps_scan_area_masked(M, ScanBase, end, IGC_TAG_MASK, O))
  /\ ScanUnchanged

(***************************************************************************)
(* igc_on_specbinding_unused, and the scan of the binding stack after it   *)
(***************************************************************************)
\* the words of a union specbinding, and the bindings of the binding stack
SpecbindingWords == 2
NumSpecbindings == 2
SizeofSpecbinding == SpecbindingWords * WordSize

\* memset that clears the first word of the binding only
igc_on_specbinding_unused_mut(M, b) == [M EXCEPT ![b] = 0]

\* memset (b, 0, sizeof *b)
igc_on_specbinding_unused(M, b) ==
  [a \in DOMAIN M |-> IF b <= a /\ a < b + SizeofSpecbinding THEN 0 ELSE M[a]]

\* IGC_FIX applied to the words from p up to end, one after the other
RECURSIVE fix_words(_, _, _, _)
fix_words(S, p, end, O) ==
  IF scan_returned(S) \/ ~(p < end) THEN S
  ELSE fix_words(IGC_FIX_at(S, p, O), p + WordSize, end, O)

\* unbind_to and its like release the binding at b of a binding stack that
\* holds any words
SpecbindingUnused ==
  /\ scan = NoScan
  /\ \E M \in [Range(ScanBase, NumSpecbindings * SpecbindingWords) -> ScanWords],
        k \in 0..(NumSpecbindings - 1) :
       LET b == ScanBase + k * SizeofSpecbinding
       IN scan' = Scanned("igc_on_specbinding_unused", b, b + SizeofSpecbinding,
                          NoScan.O, M,
                          [ScanStart(M) EXCEPT !.mem = igc_on_specbinding_unused(M, b)])
  /\ ScanUnchanged

\* the binding stack is scanned after a binding was released: by
\* mps_scan_area_masked, the scan function its root was made with.  base and
\* limit stay those of the released binding.
ScanSpecpdlRoot ==
  /\ scan.fn = "igc_on_specbinding_unused"
  /\ \E O \in { o \in Oracles : ~o.move } :
       scan' = Scanned("mps_scan_area_masked of specpdl", scan.base, scan.limit, O,
                       scan.after,
                       mps_scan_area_masked_loop(ScanStart(scan.after), ScanBase,
                          ScanBase + NumSpecbindings * SizeofSpecbinding,
                          IGC_TAG_MASK, O))
  /\ ScanUnchanged

\* the words of the binding stack are fixed after a binding was released,
\* each by IGC_FIX
FixSpecpdl ==
  /\ scan.fn = "igc_on_specbinding_unused"
  /\ \E O \in Oracles :
       scan' = Scanned("IGC_FIX of specpdl", scan.base, scan.limit, O, scan.after,
                       fix_words(ScanStart(scan.after), ScanBase,
                                 ScanBase + NumSpecbindings * SizeofSpecbinding, O))
  /\ ScanUnchanged

(***************************************************************************)
(* The fwd, isfwd and pad methods of the object formats                    *)
(***************************************************************************)
\* calls of format methods in one behaviour
MaxFmtCalls == 3
\* sizeof (struct igc_pad)
SizeofPad == 8
\* sizeof string, the bytes of "padding" with the terminating null, and the
\* word these bytes make
SizeofString == 8
PaddingString == 8560
\* the words of the memory of the format methods: three objects of the cons
\* pool, or one of the symbol pool, and one word behind them
FmtWords == 6
FmtLimit == ScanBase + FmtWords * WordSize

\* IGC_ASSERT (expr) lets the caller go on: always in a build without
\* IGC_DEBUG, and in one with IGC_DEBUG (igc.h defines it) if expr holds
IGC_ASSERT(debug, expr) == debug => expr

Min(a, b) == IF a < b THEN a ELSE b

\* what a format method leaves: the memory, the value returned, and whether
\* it returned or ended in emacs_abort
Returned(M, val) == [mem |-> M, val |-> val, ret |-> "normal"]
Aborted(M) == [mem |-> M, val |-> NULL, ret |-> "abort"]

\* *f = m with m = { .sig = IGC_FWDSIG, .new = new }
forward(M, old, new) == [M EXCEPT ![old] = IGC_FWDSIG, ![old + WordSize] = new]

\* the expression of the assertion of pad
pad_assert(size) == size <= SizeofPad

\* while (p < end) { n = min (sizeof string, end - p); memcpy (p, string, n);
\* p += n; }  The sizes are multiples of the word size, so n is a word.
RECURSIVE pad_fill(_, _, _)
pad_fill(M, p, end) ==
  IF ~(p < end) THEN M
  ELSE LET n == Min(SizeofString, end - p)
       IN pad_fill([M EXCEPT ![p] = PaddingString], p + n, end)

pad(M, addr, size, debug) ==
  IF ~IGC_ASSERT(debug, pad_assert(size)) THEN Aborted(M)
  ELSE Returned(pad_fill([M EXCEPT ![addr] = IGC_PADSIG], addr + SizeofPad, addr + size),
                NULL)

cons_fwd(M, old, new, debug) ==
  IF ~IGC_ASSERT(debug, FALSE) THEN Aborted(M)
  ELSE Returned(forward(M, old, new), NULL)

cons_isfwd(M, addr, debug) ==
  IF ~IGC_ASSERT(debug, FALSE) THEN Aborted(M)
  ELSE Returned(M, is_forwarded(M, addr))

cons_pad(M, addr, size, debug) == pad(M, addr, size, debug)

symbol_fwd(M, old, new, debug) ==
  IF ~IGC_ASSERT(debug, FALSE) THEN Aborted(M)
  ELSE Returned(forward(M, old, new), NULL)

symbol_isfwd(M, addr, debug) ==
  IF ~IGC_ASSERT(debug, FALSE) THEN Aborted(M)
  ELSE Returned(M, is_forwarded(M, addr))

symbol_pad(M, addr, size, debug) == pad(M, addr, size, debug)

NoCall == [fn |-> "none", addr |-> NULL, arg |-> NULL, val |-> NULL, ret |-> "none"]
NoFmt ==
  LET M == [a \in Range(ScanBase, FmtWords + 1) |-> make_fixnum(1)]
  IN [mem |-> M, before |-> M, call |-> NoCall, prev |-> NoCall, n |-> 0]

\* the objects of the cons pool and of the symbol pool in the memory
FmtConses == { ScanBase + k * SizeofCons : k \in 0..((FmtWords * WordSize) \div SizeofCons - 1) }
FmtSymbols == { ScanBase + k * SizeofSymbol : k \in 0..((FmtWords * WordSize) \div SizeofSymbol - 1) }
\* the sizes MPS pads with at addr: multiples of the alignment of the
\* format, not smaller than the marker
PadSizes(addr) ==
  { sz \in { k * GCALIGNMENT : k \in 1..FmtWords } :
      sz >= SizeofPad /\ addr + sz <= FmtLimit }

\* MPS has called the method fn with addr and arg, and it left R
FmtCalled(fn, addr, arg, R) ==
  /\ fmt' = [mem |-> R.mem, before |-> fmt.mem,
             call |-> [fn |-> fn, addr |-> addr, arg |-> arg, val |-> R.val, ret |-> R.ret],
             prev |-> fmt.call, n |-> fmt.n + 1]
  /\ status' = IF R.ret = "abort" THEN "aborted" ELSE status
  /\ UNCHANGED <<parked, roots, threads, mps_roots, mps_thrs, mps_aps, failed>>
  /\ UNCHANGED <<rtvars, inhibit, scope_exit, hook, alvars, finvars, ropvars, codec, scan, hm, td>>

FmtCanCall == status = "running" /\ fmt.n < MaxFmtCalls

ConsFwd ==
  /\ FmtCanCall
  /\ \E old \in FmtConses, new \in {ConsAddr(1), ConsAddr(2)}, debug \in BOOLEAN :
       FmtCalled("cons_fwd", old, new, cons_fwd(fmt.mem, old, new, debug))

ConsIsfwd ==
  /\ FmtCanCall
  /\ \E addr \in FmtConses, debug \in BOOLEAN :
       FmtCalled("cons_isfwd", addr, NULL, cons_isfwd(fmt.mem, addr, debug))

ConsPad ==
  /\ FmtCanCall
  /\ \E addr \in FmtConses, debug \in BOOLEAN :
       \E size \in PadSizes(addr) :
         FmtCalled("cons_pad", addr, size, cons_pad(fmt.mem, addr, size, debug))

SymbolFwd ==
  /\ FmtCanCall
  /\ \E old \in FmtSymbols, new \in {SymbolAddr(1), SymbolAddr(2)}, debug \in BOOLEAN :
       FmtCalled("symbol_fwd", old, new, symbol_fwd(fmt.mem, old, new, debug))

SymbolIsfwd ==
  /\ FmtCanCall
  /\ \E addr \in FmtSymbols, debug \in BOOLEAN :
       FmtCalled("symbol_isfwd", addr, NULL, symbol_isfwd(fmt.mem, addr, debug))

SymbolPad ==
  /\ FmtCanCall
  /\ \E addr \in FmtSymbols, debug \in BOOLEAN :
       \E size \in PadSizes(addr) :
         FmtCalled("symbol_pad", addr, size, symbol_pad(fmt.mem, addr, size, debug))

(***************************************************************************)
(* Finalization: do_finalize, handle_messages                              *)
(***************************************************************************)
\* the Lisp_Finalizer objects; each is made with a function that is not nil
Finalizers == 1..NumFinalizers
FinFunction(f) == make_lisp_ptr(ConsAddr(f), Lisp_Cons)

\* do_finalize without the store of Qnil to the function field
do_finalize_mut(F, f) ==
  IF F[f] # Qnil THEN [fin |-> F, run |-> TRUE, fun |-> F[f]]
  ELSE [fin |-> F, run |-> FALSE, fun |-> Qnil]

\* do_finalize up to the call of run_finalizer_function: F maps the
\* finalizers to their function fields; run says whether fun is called
do_finalize(F, f) ==
  IF F[f] # Qnil THEN [fin |-> [F EXCEPT ![f] = Qnil], run |-> TRUE, fun |-> F[f]]
  ELSE [fin |-> F, run |-> FALSE, fun |-> Qnil]

LoopFrame == [pc |-> "loop", f |-> NULL]
RunFrame(f) == [pc |-> "run", f |-> f]
Top(st) == st[Len(st)]
Pop(st) == SubSeq(st, 1, Len(st) - 1)

\* ---------------------------------------------------------------------
\* free_igc, the atexit handler, statement by statement
\* ---------------------------------------------------------------------

\* the statements of free_igc, in program order
TeardownOrder ==
  <<"free_all_threads", "cons_pool", "cons_fmt", "symbol_pool", "symbol_fmt",
    "remove_all_roots", "chain", "arena", "xfree", "done">>
\* the MPS objects of struct igc that free_igc destroys
Resources == {"cons_pool", "cons_fmt", "symbol_pool", "symbol_fmt", "chain", "arena"}
\* free_igc has not been entered
NoTeardown == [pc |-> "none", destroyed |-> {}]
\* the statement after statement pc
NextStatement(pc) ==
  TeardownOrder[1 + CHOOSE i \in 1..(Len(TeardownOrder) - 1) : TeardownOrder[i] = pc]
\* the pool an allocation point of this kind was created on (make_thread_aps)
PoolOf(kind) == IF kind = "cons" THEN "cons_pool" ELSE "symbol_pool"
\* the allocation points created on pool p and not destroyed
LiveAPsOn(G, p) == { a \in APs : G.mps_aps[a] # "none" /\ PoolOf(G.mps_aps[a]) = p }

\* exit runs the handler init_igc registered with atexit
FreeGlobalIgc ==
  /\ status = "running" /\ hook = NoHook /\ td = NoTeardown
  /\ SetGC([GC EXCEPT !.status = "exiting"])
  /\ td' = [td EXCEPT !.pc = "free_all_threads"]
  /\ UNCHANGED <<rtvars, inhibit, scope_exit, hook, alvars, finvars, ropvars,
                 codec, scan, fmt, hm>>

\* free_all_threads: one turn of its loop, or its exit
FreeAllThreads ==
  /\ status = "exiting" /\ td.pc = "free_all_threads"
  /\ IF threads.head # NULL
     THEN /\ SetGC(igc_thread_remove(GC, threads.head))
          /\ td' = td
     ELSE /\ td' = [td EXCEPT !.pc = NextStatement(td.pc)]
          /\ UNCHANGED gcvars
  /\ UNCHANGED <<rtvars, inhibit, scope_exit, hook, alvars, finvars, ropvars,
                 codec, scan, fmt, hm>>

\* mps_pool_destroy, mps_fmt_destroy, mps_chain_destroy, mps_arena_destroy:
\* destroying a pool that still has allocation points is an error to MPS,
\* which either asserts or carries on
MpsDestroy ==
  /\ status = "exiting" /\ td.pc \in Resources
  /\ \E asserts \in BOOLEAN :
       /\ asserts => LiveAPsOn(GC, td.pc) # {}
       /\ SetGC(IF asserts THEN emacs_abort(GC) ELSE GC)
       /\ td' = IF asserts THEN td
                ELSE [pc |-> NextStatement(td.pc),
                      destroyed |-> td.destroyed \cup {td.pc}]
  /\ UNCHANGED <<rtvars, inhibit, scope_exit, hook, alvars, finvars, ropvars,
                 codec, scan, fmt, hm>>

\* remove_all_roots: one turn of its loop, or its exit
RemoveAllRoots ==
  /\ status = "exiting" /\ td.pc = "remove_all_roots"
  /\ IF roots.head # NULL
     THEN /\ SetGC(remove_root(GC, roots.head))
          /\ td' = td
     ELSE /\ td' = [td EXCEPT !.pc = NextStatement(td.pc)]
          /\ UNCHANGED gcvars
  /\ UNCHANGED <<rtvars, inhibit, scope_exit, hook, alvars, finvars, ropvars,
                 codec, scan, fmt, hm>>

\* xfree (gc)
FreeIgcReturn ==
  /\ status = "exiting" /\ td.pc = "xfree"
  /\ td' = [td EXCEPT !.pc = NextStatement(td.pc)]
  /\ UNCHANGED <<gcvars, rtvars, inhibit, scope_exit, hook, alvars, finvars,
                 ropvars, codec, scan, fmt, hm>>

\* the messages, numbered in the order in which they are posted
Messages == 1..MaxPosted
\* no call of handle_messages has obtained the message
NoOwner == <<0, 0>>
NoMessages ==
  [posted |-> 0, ids |-> <<>>,
   stat |-> [m \in Messages |-> "none"],
   nfin |-> [m \in Messages |-> 0],
   owner |-> [m \in Messages |-> NoOwner]]

\* mps_message_get by the call of handle_messages that is frame k of the
\* stack of thread t: the first message leaves the queue
mps_message_get(H, t, k) ==
  LET m == Head(H.ids)
  IN [H EXCEPT !.ids = Tail(@), !.stat[m] = "got", !.owner[m] = <<t, k>>]

\* do_finalize is called for the block of message m
finalization_ref(H, m) ==
  [H EXCEPT !.stat[m] = "finalizing", !.nfin[m] = @ + 1]

\* handle_messages that does not discard the message
mps_message_discard_mut(H, m) == H

\* mps_message_discard (gc->arena, msg)
mps_message_discard(H, m) == [H EXCEPT !.stat[m] = "discarded"]

\* the message that the call at frame k of thread t has passed to do_finalize
\* and not yet discarded
HeldMessage(H, t, k) ==
  CHOOSE m \in Messages : H.owner[m] = <<t, k>> /\ H.stat[m] = "finalizing"

\* the messages the call at frame k of thread t has obtained
Obtained(H, t, k) == { m \in Messages : H.owner[m] = <<t, k>> }

\* the collector finds the block of finalizer f unreachable and posts a
\* finalization message for it
PostFinalization ==
  /\ CollectorCanRun
  /\ Len(msgq) < MaxMessages /\ hm.posted < MaxPosted
  /\ \E f \in Finalizers : msgq' = Append(msgq, f)
  /\ hm' = [hm EXCEPT !.posted = @ + 1, !.ids = Append(@, hm.posted + 1),
                      !.stat[hm.posted + 1] = "queued"]
  /\ UNCHANGED <<gcvars, rtvars, inhibit, scope_exit, hook, alvars>>
  /\ UNCHANGED <<slot, fin, runs, drain, ropvars, codec, scan, fmt, td>>

\* igc_handle_messages is called by thread t, from Lisp code or from
\* inside a finalizer function that is running
IgcHandleMessages(t) ==
  /\ CanCall(t)
  /\ Len(drain[t]) < MaxDrainDepth
  /\ IF drain[t] = <<>> THEN TRUE ELSE Top(drain[t]).pc = "run"
  /\ drain' = [drain EXCEPT ![t] = Append(@, LoopFrame)]
  /\ UNCHANGED <<gcvars, rtvars, inhibit, scope_exit, hook, alvars>>
  /\ UNCHANGED <<slot, fin, msgq, runs, xvars>>

\* one pass of the loop of handle_messages: a message is taken from the
\* queue and do_finalize is called for its block; the message is discarded
\* when do_finalize returns, which it does at once if it calls no function
HandleMessagesLoop(t) ==
  /\ status = "running" /\ drain[t] # <<>> /\ Top(drain[t]).pc = "loop"
  /\ msgq # <<>>
  /\ LET f == Head(msgq)
         d == do_finalize(fin, f)
         m == Head(hm.ids)
         H == finalization_ref(mps_message_get(hm, t, Len(drain[t])), m)
     IN /\ msgq' = Tail(msgq)
        /\ fin' = d.fin
        /\ runs' = IF d.run THEN [runs EXCEPT ![f] = @ + 1] ELSE runs
        /\ drain' = IF d.run THEN [drain EXCEPT ![t] = Append(@, RunFrame(f))]
                     ELSE drain
        /\ hm' = IF d.run THEN H ELSE mps_message_discard(H, m)
  /\ UNCHANGED <<gcvars, rtvars, inhibit, scope_exit, hook, alvars>>
  /\ UNCHANGED <<slot, ropvars, codec, scan, fmt, td>>

\* the queue is empty: handle_messages returns
HandleMessagesReturn(t) ==
  /\ status = "running" /\ drain[t] # <<>> /\ Top(drain[t]).pc = "loop"
  /\ msgq = <<>>
  /\ drain' = [drain EXCEPT ![t] = Pop(@)]
  /\ hm' = [hm EXCEPT !.owner = [m \in Messages |->
                                   IF hm.owner[m] = <<t, Len(drain[t])>>
                                   THEN NoOwner ELSE hm.owner[m]]]
  /\ UNCHANGED <<gcvars, rtvars, inhibit, scope_exit, hook, alvars>>
  /\ UNCHANGED <<slot, fin, msgq, runs, ropvars, codec, scan, fmt, td>>

\* run_finalizer_function returns, do_finalize returns, and the message is
\* discarded
RunFinalizerReturn(t) ==
  /\ status = "running" /\ drain[t] # <<>> /\ Top(drain[t]).pc = "run"
  /\ drain' = [drain EXCEPT ![t] = Pop(@)]
  /\ hm' = mps_message_discard(hm, HeldMessage(hm, t, Len(drain[t]) - 1))
  /\ UNCHANGED <<gcvars, rtvars, inhibit, scope_exit, hook, alvars>>
  /\ UNCHANGED <<slot, fin, msgq, runs, ropvars, codec, scan, fmt, td>>

(***************************************************************************)
(* igc_on_mem_insert and igc_on_mem_delete statement by statement, called  *)
(* by Lisp threads.  A Lisp thread runs C code only while it holds the     *)
(* global lock, and gives the lock up only where it yields.                *)
(***************************************************************************)
\* igc_root_list_push up to r->prev = NULL: the node is allocated and filled
list_push_fill(L, d) ==
  LET r == xzalloc(L)
  IN [L EXCEPT !.node[r] = [next |-> L.head, prev |-> NULL, d |-> d],
               !.live = @ \cup {r}]

\* igc_root_list_push that leaves the prev field of the old head alone
list_push_link_mut(L, r) == L

\* if (r->next) r->next->prev = r
list_push_link(L, r) ==
  IF L.node[r].next # NULL THEN [L EXCEPT !.node[L.node[r].next].prev = r] ELSE L

\* *head = r
list_push_head(L, r) == [L EXCEPT !.head = r]

\* if (r->next) r->next->prev = r->prev
list_remove_next(L, r) ==
  IF L.node[r].next # NULL
  THEN [L EXCEPT !.node[L.node[r].next].prev = L.node[r].prev] ELSE L

\* if (r->prev) r->prev->next = r->next; else *head = r->next
list_remove_prev(L, r) ==
  IF L.node[r].prev # NULL
  THEN [L EXCEPT !.node[L.node[r].prev].next = L.node[r].next]
  ELSE [L EXCEPT !.head = L.node[r].next]

\* xfree (r)
list_remove_free(L, r) ==
  [L EXCEPT !.node[r] = [next |-> NULL, prev |-> NULL, d |-> L.zero],
            !.live = @ \ {r}]

\* thread t holds the global lock and is running Lisp code
HoldsLock(t) ==
  /\ status = "running" /\ hook = NoHook
  /\ glock = t /\ gc_info[t] # NULL /\ alloc[t].pc = "idle"

\* igc_on_mem_insert is entered: make_ambig_root
RopInsert(t) ==
  /\ HoldsLock(t) /\ rop[t].pc = "idle"
  /\ \E b \in Malloc :
       LET G == make_ambig_root(GC, b[1], b[2])
       IN /\ SetGC(G)
          /\ rop' = [rop EXCEPT ![t] = IF Running(G)
                                       THEN [@ EXCEPT !.pc = "fill", !.blk = b,
                                                      !.root = G.ret]
                                       ELSE @]
  /\ UNCHANGED <<rtvars, inhibit, scope_exit, hook, alvars>>
  /\ UNCHANGED <<finvars, purevars, glock>>

\* register_root: the first statements of igc_root_list_push
RopPushFill(t) ==
  /\ HoldsLock(t) /\ rop[t].pc = "fill"
  /\ roots' = list_push_fill(roots, [root |-> rop[t].root, start |-> rop[t].blk[1],
                                     end |-> rop[t].blk[2]])
  /\ rop' = [rop EXCEPT ![t].pc = "link", ![t].r = xzalloc(roots)]
  /\ UNCHANGED <<status, parked, threads, mps_roots, mps_thrs, mps_aps, failed>>
  /\ UNCHANGED <<rtvars, inhibit, scope_exit, hook, alvars>>
  /\ UNCHANGED <<finvars, purevars, glock>>

RopPushLink(t) ==
  /\ HoldsLock(t) /\ rop[t].pc = "link"
  /\ roots' = list_push_link(roots, rop[t].r)
  /\ rop' = [rop EXCEPT ![t].pc = "head"]
  /\ UNCHANGED <<status, parked, threads, mps_roots, mps_thrs, mps_aps, failed>>
  /\ UNCHANGED <<rtvars, inhibit, scope_exit, hook, alvars>>
  /\ UNCHANGED <<finvars, purevars, glock>>

\* *head = r, and igc_on_mem_insert returns r to mem_insert
RopPushHead(t) ==
  /\ HoldsLock(t) /\ rop[t].pc = "head"
  /\ roots' = list_push_head(roots, rop[t].r)
  /\ mem' = mem \cup {[blk |-> rop[t].blk, info |-> rop[t].r]}
  /\ rop' = [rop EXCEPT ![t] = [NoOp EXCEPT !.last = "insert"]]
  /\ UNCHANGED <<status, parked, threads, mps_roots, mps_thrs, mps_aps, failed>>
  /\ UNCHANGED <<gc_info, specpdl, face_cache, matrix, rdstack, xroots, dump_loaded>>
  /\ UNCHANGED <<inhibit, scope_exit, hook, alvars>>
  /\ UNCHANGED <<finvars, purevars, glock>>

\* igc_on_mem_delete is entered with the info field of a mem_node, and
\* deregister_root reads r->d.gc
RopDelete(t) ==
  /\ HoldsLock(t) /\ rop[t].pc = "idle"
  /\ \E m \in mem :
       /\ mem' = mem \ {m}
       /\ rop' = [rop EXCEPT ![t] = [@ EXCEPT !.pc = "next", !.r = m.info,
                                              !.root = roots.node[m.info].d.root]]
  /\ UNCHANGED gcvars
  /\ UNCHANGED <<gc_info, specpdl, face_cache, matrix, rdstack, xroots, dump_loaded>>
  /\ UNCHANGED <<inhibit, scope_exit, hook, alvars>>
  /\ UNCHANGED <<finvars, purevars, glock>>

RopRemoveNext(t) ==
  /\ HoldsLock(t) /\ rop[t].pc = "next"
  /\ roots' = list_remove_next(roots, rop[t].r)
  /\ rop' = [rop EXCEPT ![t].pc = "prev"]
  /\ UNCHANGED <<status, parked, threads, mps_roots, mps_thrs, mps_aps, failed>>
  /\ UNCHANGED <<rtvars, inhibit, scope_exit, hook, alvars>>
  /\ UNCHANGED <<finvars, purevars, glock>>

RopRemovePrev(t) ==
  /\ HoldsLock(t) /\ rop[t].pc = "prev"
  /\ roots' = list_remove_prev(roots, rop[t].r)
  /\ rop' = [rop EXCEPT ![t].pc = "free"]
  /\ UNCHANGED <<status, parked, threads, mps_roots, mps_thrs, mps_aps, failed>>
  /\ UNCHANGED <<rtvars, inhibit, scope_exit, hook, alvars>>
  /\ UNCHANGED <<finvars, purevars, glock>>

\* *d = r->d; xfree (r); and remove_root destroys the MPS root
RopRemoveFree(t) ==
  /\ HoldsLock(t) /\ rop[t].pc = "free"
  /\ roots' = list_remove_free(roots, rop[t].r)
  /\ mps_roots' = mps_roots \ {rop[t].root}
  /\ rop' = [rop EXCEPT ![t] = [NoOp EXCEPT !.last = "delete"]]
  /\ UNCHANGED <<status, parked, threads, mps_thrs, mps_aps, failed>>
  /\ UNCHANGED <<rtvars, inhibit, scope_exit, hook, alvars>>
  /\ UNCHANGED <<finvars, purevars, glock>>

\* thread t yields and thread u takes the global lock.  None of the
\* functions called by the two hooks yields.
ThreadYield(t, u) ==
  /\ HoldsLock(t) /\ rop[t].pc = "idle"
  /\ u # t /\ gc_info[u] # NULL
  /\ glock' = u
  /\ UNCHANGED <<gcvars, rtvars, inhibit, scope_exit, hook, alvars>>
  /\ UNCHANGED <<finvars, purevars, rop>>

\* run_thread of a new thread, which starts when the holder of the global
\* lock yields
RopThreadAdd(t) ==
  /\ rop[glock].pc = "idle"
  /\ ThreadAdd(t)

(***************************************************************************)
(* The state after init_igc                                                *)
(***************************************************************************)
\* G is the collector state, with the main thread's record in ret
InitState(G) ==
  /\ status = G.status
  /\ parked = G.parked
  /\ roots = G.roots
  /\ threads = G.threads
  /\ mps_roots = G.mps_roots
  /\ mps_thrs = G.mps_thrs
  /\ mps_aps = G.mps_aps
  /\ failed = G.failed
  /\ gc_info = [t \in Threads |-> IF t = MainThread THEN G.ret ELSE NULL]
  /\ specpdl = [t \in Threads |-> NoBlock]
  /\ face_cache = [faces_by_id |-> NoBlock, igc_info |-> NULL]
  /\ matrix = [rows |-> NoBlock, igc_info |-> NULL]
  /\ rdstack = [blk |-> NoBlock, info |-> NULL]
  /\ mem = {}
  /\ xroots = {}
  /\ dump_loaded = FALSE
  /\ inhibit = [t \in Threads |-> 0]
  /\ scope_exit = [t \in Threads |-> "none"]
  /\ hook = NoHook
  /\ alloc = [t \in Threads |-> NoAlloc]
  /\ mps_buf = [a \in APs |-> NoBuf]
  /\ cons_mem = <<>>
  /\ sym_mem = <<>>
  /\ log = [a \in APs |-> <<>>]
  /\ calls = [t \in Threads |-> <<>>]
  /\ slot = NoSlot
  /\ fin = [f \in Finalizers |-> FinFunction(f)]
  /\ msgq = <<>>
  /\ runs = [f \in Finalizers |-> 0]
  /\ drain = [t \in Threads |-> <<>>]
  /\ glock = MainThread
  /\ rop = [t \in Threads |-> NoOp]
  /\ codec = NoCodec
  /\ scan = NoScan
  /\ fmt = NoFmt
  /\ hm = NoMessages
  /\ td = NoTeardown

Init == InitState(init_igc)

\* the process before main has called init_igc
InitBoot == InitState([NewGC EXCEPT !.status = "boot"])

\* main calls init_igc; every creation in make_igc can fail
InitIgc ==
  /\ status = "boot"
  /\ \E results \in [BootResources -> {MPS_RES_OK, MPS_RES_FAIL}] :
       LET G == init_igc_k(results)
       IN /\ SetGC(G)
          /\ gc_info' = [gc_info EXCEPT ![MainThread] =
                            IF Running(G) /\ G.failed = "none" THEN G.ret ELSE NULL]
  /\ UNCHANGED <<specpdl, face_cache, matrix, rdstack, mem, xroots, dump_loaded,
                 inhibit, scope_exit, hook>>
  /\ UNCHANGED <<alvars, cbvars>>

Next ==
  \/ MemInsert \/ MemDelete \/ XallocAmbigRoot \/ XfreeAmbigRoot
  \/ \E t \in Threads : ThreadAdd(t)
  \/ \E t \in Threads : ThreadRemove(t)
  \/ AllocMainThreadSpecpdl
  \/ PdumpLoaded
  \/ MakeFaceCache \/ FreeFaceCache \/ FreeGlyphMatrix
  \/ \E t \in Threads : GrowSpecpdl(t)
  \/ FaceCacheChange \/ AdjustGlyphMatrix \/ GrowReadStack
  \/ HookPark \/ HookDereg \/ HookReg \/ HookRelease
  \/ \E t \in Threads : InhibitGC(t)
  \/ \E t \in Threads : UnbindTo(t)
  \/ \E t \in Threads : SignalUnwind(t)

Spec == Init /\ [][Next]_vars

\* The allocation functions with the collector and with thread start and
\* exit
NextAlloc ==
  \/ \E t \in Threads : MakeCons(t)
  \/ \E t \in Threads : AllocSymbol(t)
  \/ \E t \in Threads : Reserve(t)
  \/ \E t \in Threads : InitObject(t)
  \/ \E t \in Threads : Commit(t)
  \/ \E t \in Threads : Return(t)
  \/ MpsFlip
  \/ \E t \in Threads : IgcOnIdle(t)
  \/ \E t \in Threads : ThreadAdd(t)
  \/ \E t \in Threads : ThreadRemove(t)

SpecAlloc == Init /\ [][NextAlloc]_vars

\* The allocation functions with the collector, inside and outside of
\* inhibit-GC scopes, with a root-reallocation hook
NextInhibit ==
  \/ \E t \in Threads : MakeCons(t)
  \/ \E t \in Threads : AllocSymbol(t)
  \/ \E t \in Threads : Reserve(t)
  \/ \E t \in Threads : InitObject(t)
  \/ \E t \in Threads : Commit(t)
  \/ \E t \in Threads : Return(t)
  \/ MpsFlip
  \/ \E t \in Threads : IgcOnIdle(t)
  \/ GrowReadStack \/ HookPark \/ HookDereg \/ HookReg \/ HookRelease
  \/ \E t \in Threads : InhibitGC(t)
  \/ \E t \in Threads : UnbindTo(t)
  \/ \E t \in Threads : SignalUnwind(t)

SpecInhibit == Init /\ [][NextInhibit]_vars

\* The process from its start: init_igc and the hooks
NextBoot == InitIgc \/ Next

SpecBoot == InitBoot /\ [][NextBoot]_vars

\* The scan functions' fix of one slot
NextFix == ScanFix

SpecFix == Init /\ [][NextFix]_vars

\* Finalization messages drained by igc_handle_messages from two threads
NextFin ==
  \/ PostFinalization
  \/ \E t \in Threads : IgcHandleMessages(t)
  \/ \E t \in Threads : HandleMessagesLoop(t)
  \/ \E t \in Threads : HandleMessagesReturn(t)
  \/ \E t \in Threads : RunFinalizerReturn(t)
  \/ \E t \in Threads : ThreadAdd(t)
  \/ \E t \in Threads : IgcOnIdle(t)

SpecFin == Init /\ [][NextFin]_vars

\* A runtime that allocates and calls igc_on_idle whenever it can, and never
\* calls igc_handle_messages
NextIdle ==
  \/ PostFinalization
  \/ \E t \in Threads : IgcOnIdle(t)
  \/ \E t \in Threads : MakeCons(t)
  \/ \E t \in Threads : Reserve(t)
  \/ \E t \in Threads : InitObject(t)
  \/ \E t \in Threads : Commit(t)
  \/ \E t \in Threads : Return(t)
  \/ MpsFlip

SpecIdle ==
  /\ Init /\ [][NextIdle]_vars
  /\ \A t \in Threads : WF_vars(IgcOnIdle(t))

(***************************************************************************)
(* Properties                                                              *)
(***************************************************************************)
\* The hooks that register and deregister roots by handle, with callers
\* that may pass a handle twice
NextMisuse ==
  \/ MemInsert \/ XallocAmbigRoot \/ MakeFaceCache
  \/ \E m \in mem : MemDeleteHandle(m)
  \/ \E p \in Ptrs : XfreeAmbigRootPtr(p)
  \/ FreeFaceCacheHandle

SpecMisuse == Init /\ [][NextMisuse]_vars

\* Two Lisp threads that register and deregister malloc blocks
NextRop ==
  \/ \E t \in Threads : RopThreadAdd(t)
  \/ \E t, u \in Threads : ThreadYield(t, u)
  \/ \E t \in Threads : RopInsert(t)
  \/ \E t \in Threads : RopPushFill(t)
  \/ \E t \in Threads : RopPushLink(t)
  \/ \E t \in Threads : RopPushHead(t)
  \/ \E t \in Threads : RopDelete(t)
  \/ \E t \in Threads : RopRemoveNext(t)
  \/ \E t \in Threads : RopRemovePrev(t)
  \/ \E t \in Threads : RopRemoveFree(t)

SpecRop == Init /\ [][NextRop]_vars

\* The tagged-word macros on every payload and tag
NextCodec == TagWord

SpecCodec == Init /\ [][NextCodec]_vars

\* The scan functions, each called once on a memory
NextScan ==
  \/ ScanCons \/ ScanSymbol \/ ScanStaticvec \/ ScanFacesById \/ ScanGlyphRows
  \/ ScanAmbigRoot

SpecScan == Init /\ [][NextScan]_vars

\* A binding of the binding stack is released, and the stack is scanned
NextSpecbinding == SpecbindingUnused \/ ScanSpecpdlRoot \/ FixSpecpdl

SpecSpecbinding == Init /\ [][NextSpecbinding]_vars

\* The fwd, isfwd and pad methods, called by MPS in any order
NextFormat ==
  \/ ConsFwd \/ ConsIsfwd \/ ConsPad
  \/ SymbolFwd \/ SymbolIsfwd \/ SymbolPad

SpecFormat == Init /\ [][NextFormat]_vars

\* Threads come and go, and at some point the process exits
NextTeardown ==
  \/ \E t \in Threads : ThreadAdd(t)
  \/ \E t \in Threads : ThreadRemove(t)
  \/ AllocMainThreadSpecpdl
  \/ FreeGlobalIgc \/ FreeAllThreads \/ MpsDestroy \/ RemoveAllRoots
  \/ FreeIgcReturn

SpecTeardown == Init /\ [][NextTeardown]_vars

\* The hooks that keep a root handle in a field of the runtime, called in
\* any order; igc_on_free_face_cache also for a cache whose root is gone
NextHandles ==
  \/ MakeFaceCache \/ FreeFaceCacheHandle \/ FaceCacheChange
  \/ AdjustGlyphMatrix \/ FreeGlyphMatrix
  \/ AllocMainThreadSpecpdl
  \/ \E t \in Threads : GrowSpecpdl(t)
  \/ GrowReadStack
  \/ HookPark \/ HookDereg \/ HookReg \/ HookRelease

SpecHandles == Init /\ [][NextHandles]_vars

\* igc_make_cons with a collector that flips and recycles memory whenever
\* it likes.  The calling thread keeps running; of the collector it is
\* assumed that it does not make the commits of a thread fail for ever.
NextMakeCons ==
  \/ \E t \in Threads : MakeCons(t)
  \/ \E t \in Threads : Reserve(t)
  \/ \E t \in Threads : InitObject(t)
  \/ \E t \in Threads : Commit(t)
  \/ \E t \in Threads : Return(t)
  \/ MpsFlip \/ MpsReclaim

CommitFails(t) == Commit(t) /\ alloc'[t].pc = "reserve"
CommitSucceeds(t) == Commit(t) /\ alloc'[t].pc = "return"

SpecMakeCons ==
  /\ Init /\ [][NextMakeCons]_vars
  /\ \A t \in Threads :
       /\ WF_vars(Reserve(t)) /\ WF_vars(InitObject(t))
       /\ WF_vars(Commit(t)) /\ WF_vars(Return(t))
       /\ []<><<CommitFails(t)>>_vars => []<><<CommitSucceeds(t)>>_vars

\* the same without the assumption about the collector
SpecMakeConsUnfair ==
  /\ Init /\ [][NextMakeCons]_vars
  /\ \A t \in Threads :
       /\ WF_vars(Reserve(t)) /\ WF_vars(InitObject(t))
       /\ WF_vars(Commit(t)) /\ WF_vars(Return(t))

\* cons_scan and symbol_scan, and a second scan of the same area
NextRescan == ScanCons \/ ScanSymbol \/ Rescan

SpecRescan == Init /\ [][NextRescan]_vars

RootRange(n) == <<roots.node[n].d.start, roots.node[n].d.end>>
\* the objects committed through allocation point a, oldest first
Committed(a) == log[a]
Last(q) == q[Len(q)]

\* C1: any two distinct roots held in the root registry have disjoint
\* [start, end) ranges.
C1_RootsDisjoint ==
  \A n \in ListSet(roots), m \in ListSet(roots) :
    n # m => ~Overlap(RootRange(n), RootRange(m))

\* C2: every insertion into or removal from the root registry or the
\* thread registry happens in a state in which the arena is parked.
C2_RegistryChangesOnlyWhenParked ==
  [][(roots'.live # roots.live \/ threads'.live # threads.live) => parked]_vars

\* C3: while a thread is inside an inhibit-GC scope the arena is parked.
C3_ParkedWhileInhibited ==
  \A t \in Threads : inhibit[t] > 0 => parked

\* C4: when a thread leaves its outermost inhibit-GC scope, normally or by
\* an error unwind, the arena is released and the collector can run.
C4_ScopeExitReleases ==
  [][\A t \in Threads :
       (inhibit[t] > 0 /\ inhibit'[t] = 0) => (~parked' /\ CollectorCanRun')]_vars

\* a thread has left its outermost scope by an error unwind, no thread is
\* inside a scope, and the collector can run
C4_Witness ==
  \E t \in Threads :
    /\ scope_exit[t] = "unwind" /\ inhibit[t] = 0
    /\ \A u \in Threads : inhibit[u] = 0
    /\ CollectorCanRun

\* C5: inside an inhibit-GC scope an allocation commits on its first
\* attempt: the loop body never runs a second time.
C5_NoRetryUnderInhibit ==
  \A t \in Threads :
    (inhibit[t] > 0 /\ alloc[t].pc # "idle") => alloc[t].tries <= 1 /\
      ~(alloc[t].pc = "reserve" /\ alloc[t].tries = 1)

\* C6: when igc_make_cons (a, b) has committed, the committed cons holds
\* car = a and cdr = b, and the value returned is the address of that cons
\* with the tag Lisp_Cons in its low three bits.
C6_ConsHoldsArguments ==
  \A t \in Threads :
    /\ (alloc[t].fn = "cons" /\ alloc[t].pc = "return") =>
         /\ cons_mem[ConsIndex(alloc[t].p)].car = Last(calls[t])[1]
         /\ cons_mem[ConsIndex(alloc[t].p)].cdr = Last(calls[t])[2]
    /\ (alloc[t].fn = "cons" /\ alloc[t].pc = "idle" /\ gc_info[t] # NULL) =>
         /\ alloc[t].val % 8 = Lisp_Cons
         /\ alloc[t].val - (alloc[t].val % 8) = Last(Committed(current_cons_ap(t)))

\* igc_make_cons has returned the cons of its second attempt
C6_Witness ==
  \E t \in Threads :
    /\ alloc[t].fn = "cons" /\ alloc[t].pc = "idle"
    /\ Len(calls[t]) = 1 /\ Len(cons_mem) = 2
    /\ \A u \in Threads \ {t} : calls[u] = <<>>
    /\ alloc[t].val = ConsAddr(2) + Lisp_Cons

\* C7: a commit that fails sends the function back to reserve, and the
\* function reaches its return statement only with its latest reservation
\* committed.
C7_RetryIsLocal ==
  /\ [](\A t \in Threads :
          alloc[t].pc = "return" =>
            /\ Committed(alloc[t].ap) # <<>>
            /\ Last(Committed(alloc[t].ap)) = alloc[t].p)
  /\ [][\A t \in Threads :
          (alloc[t].pc = "commit" /\ alloc'[t].pc # "commit"
             /\ mps_buf[alloc[t].ap].flipped)
            => (alloc'[t].pc = "reserve" /\ log' = log)]_vars

\* igc_alloc_symbol is at its return statement after one failed commit
C7_Witness ==
  \E t \in Threads :
    /\ alloc[t].fn = "symbol" /\ alloc[t].pc = "return" /\ alloc[t].tries = 2

\* C8: no object is committed with a reference slot that was not written.
C8_CommittedObjectsWritten ==
  \A a \in APs : \A i \in 1..Len(log[a]) :
    IF log[a][i] < SymbolPoolBase
    THEN /\ cons_mem[ConsIndex(log[a][i])].car # Unwritten
         /\ cons_mem[ConsIndex(log[a][i])].cdr # Unwritten
    ELSE \A f \in {"name", "value", "function", "plist", "package"} :
           sym_mem[SymbolIndex(log[a][i])][f] # Unwritten

\* the igc_make_cons calls of thread t that have committed their cons
ConsCallsDone(t) ==
  LET cs == SelectSeq(calls[t], LAMBDA c : c # <<>>)
  IN IF alloc[t].fn = "cons" /\ alloc[t].pc \in {"reserve", "init", "commit"}
     THEN SubSeq(cs, 1, Len(cs) - 1) ELSE cs

\* C9: the objects committed on a thread's cons allocation point are, in
\* order, the conses of that thread's igc_make_cons calls, one per call.
C9_CommitsInProgramOrder ==
  \A t \in Threads :
    gc_info[t] # NULL =>
      LET q == Committed(current_cons_ap(t))
      IN /\ Len(q) = Len(ConsCallsDone(t))
         /\ \A i \in 1..Len(q) :
              /\ cons_mem[ConsIndex(q[i])].car = ConsCallsDone(t)[i][1]
              /\ cons_mem[ConsIndex(q[i])].cdr = ConsCallsDone(t)[i][2]
         /\ \A i \in 1..Len(q), j \in 1..Len(q) : i < j => q[i] < q[j]

\* a thread has committed two conses with different contents, the second
\* one after a failed commit, while another thread is registered
C9_Witness ==
  \E t \in Threads, u \in Threads :
    /\ t # u /\ gc_info[t] # NULL /\ gc_info[u] # NULL
    /\ Committed(current_cons_ap(t)) = <<ConsAddr(1), ConsAddr(3)>>
    /\ calls[t][1] # calls[t][2]

\* the igc_thread_list nodes of the registered threads
ThreadRecs == ListSet(threads)
ThreadAPs(n) == { threads.node[n].d.cons_ap, threads.node[n].d.symbol_ap }

\* C10: a thread reserves and commits on the allocation point of its own
\* thread record, and no allocation point belongs to two registered threads;
\* as long as the process has not aborted, every registered thread has two
\* allocation points of its own.
C10_APsAreThreadLocal ==
  /\ \A t \in Threads :
       alloc[t].pc # "idle" =>
         /\ alloc[t].ap # NULL
         /\ alloc[t].ap = IF alloc[t].fn = "cons"
                          THEN threads.node[gc_info[t]].d.cons_ap
                          ELSE threads.node[gc_info[t]].d.symbol_ap
         /\ \A u \in Threads \ {t} :
              gc_info[u] # NULL => alloc[t].ap \notin ThreadAPs(gc_info[u])
  /\ \A n \in ThreadRecs, m \in ThreadRecs :
       n # m => ThreadAPs(n) \cap ThreadAPs(m) = {}
  /\ status = "running" =>
       \A n \in ThreadRecs :
         /\ threads.node[n].d.cons_ap # threads.node[n].d.symbol_ap
         /\ NULL \notin ThreadAPs(n)

\* two threads are between reserve and commit of a cons at the same time,
\* each with a reservation the collector has not invalidated
C10_Witness ==
  \E t \in Threads, u \in Threads :
    /\ t # u
    /\ alloc[t].pc = "commit" /\ alloc[u].pc = "commit"
    /\ alloc[t].fn = "cons" /\ alloc[u].fn = "cons"
    /\ mps_buf[alloc[t].ap].p = alloc[t].p /\ ~mps_buf[alloc[t].ap].flipped
    /\ mps_buf[alloc[u].ap].p = alloc[u].p /\ ~mps_buf[alloc[u].ap].flipped

\* C11: the word in the slot after IGC_FIX has the same three tag bits as
\* the word before, whatever MPS_FIX1 and MPS_FIX2 answered.
C11_FixPreservesTag ==
  slot.after % (IGC_TAG_MASK + 1) = slot.before % (IGC_TAG_MASK + 1)

\* a cons reference whose referent has moved has been fixed
C11_Witness ==
  /\ slot.before % (IGC_TAG_MASK + 1) = Lisp_Cons
  /\ slot.fix1 /\ slot.fix2 /\ slot.ret = "next"
  /\ slot.after # slot.before

\* C12: for a word with the symbol tag, lispsym + payload is what MPS_FIX1
\* and MPS_FIX2 get; after a successful MPS_FIX2 the slot holds the new
\* address minus lispsym, with the tag, which is the old word when the
\* referent has not moved.
C12_SymbolOffsetReencoded ==
  (slot.before % (IGC_TAG_MASK + 1) = Lisp_Symbol /\ slot # NoSlot) =>
    /\ slot.ref = (LispSym[1] + (slot.before - Lisp_Symbol)) % WordMod
    /\ (slot.fix2 /\ slot.ret = "next") =>
         /\ slot.after = ((slot.new + WordMod - LispSym[1]) % WordMod) + Lisp_Symbol
         /\ slot.new = slot.ref => slot.after = slot.before

\* a symbol reference has been fixed whose referent moved from an address
\* above lispsym to an address below lispsym
C12_Witness ==
  /\ slot.before % (IGC_TAG_MASK + 1) = Lisp_Symbol
  /\ slot.fix1 /\ slot.fix2 /\ slot.ret = "next"
  /\ slot.ref > LispSym[1] /\ slot.new < LispSym[1] /\ slot.new # NULL

\* C13: the function of a finalizer is run at most once; it is run only
\* when the function field is not nil, and the field is nil from then on.
C13_FinalizerRunsAtMostOnce ==
  /\ [](\A f \in Finalizers : runs[f] <= 1)
  /\ [][\A f \in Finalizers :
          runs'[f] # runs[f] => (fin[f] # Qnil /\ fin'[f] = Qnil)]_vars
  /\ [][\A f \in Finalizers : fin[f] = Qnil => fin'[f] = Qnil]_vars

\* a thread drains the queue from inside a finalizer function while another
\* thread is draining too; every finalizer has run and the queue, which held
\* two messages for one of them, is empty
C13_Witness ==
  \E t \in Threads, u \in Threads :
    /\ t # u
    /\ Len(drain[t]) = MaxDrainDepth /\ drain[u] # <<>>
    /\ msgq = <<>>
    /\ \A f \in Finalizers : runs[f] = 1 /\ fin[f] = Qnil

\* C14: a finalizer with a pending finalization message and a function
\* that is not nil has its function run eventually, in a runtime that calls
\* igc_on_idle again and again and never igc_handle_messages.
C14_IdleDrainsFinalizers ==
  \A f \in Finalizers :
    ((\E i \in 1..Len(msgq) : msgq[i] = f) /\ fin[f] # Qnil) ~> (runs[f] > 0)

\* C15: when a thread record leaves the thread registry, both allocation
\* points of the record are destroyed and its MPS thread is deregistered.
C15_ThreadRemoveDestroysAPs ==
  [][\A n \in ThreadNodes :
       (n \in threads.live /\ n \notin threads'.live) =>
         /\ mps_aps'[threads.node[n].d.cons_ap] = "none"
         /\ mps_aps'[threads.node[n].d.symbol_ap] = "none"
         /\ threads.node[n].d.thr \notin mps_thrs']_vars

\* thread t has a record in the thread registry that is registered with
\* MPS, an ambiguous root for its control stack, and a live allocation
\* point for each pool
ThreadInstalled(t) ==
  LET n == gc_info[t]
  IN /\ n \in ThreadRecs
     /\ threads.node[n].d.thr \in mps_thrs
     /\ \E r \in ListSet(roots) :
          /\ roots.node[r].d.start = Cold(t)
          /\ roots.node[r].d.root \in mps_roots
     /\ threads.node[n].d.cons_ap # NULL
     /\ mps_aps[threads.node[n].d.cons_ap] = "cons"
     /\ threads.node[n].d.symbol_ap # NULL
     /\ mps_aps[threads.node[n].d.symbol_ap] = "symbol"

\* the record of thread t holds a registered root over its binding stack
HasSpecpdlRoot(t) ==
  LET r == threads.node[gc_info[t]].d.specpdl_root
  IN /\ r \in ListSet(roots)
     /\ RootRange(r) = specpdl[t]
     /\ roots.node[r].d.root \in mps_roots

\* C16 as stated: after igc_thread_add has returned, for the main thread in
\* init_igc and for every thread started later, the thread is installed and
\* the root registry holds a root over its binding stack.
C16_ThreadAddInstallsAll ==
  /\ ThreadInstalled(MainThread) /\ HasSpecpdlRoot(MainThread)
  /\ [][\A t \in Threads :
          (gc_info[t] = NULL /\ gc_info'[t] # NULL) =>
            (ThreadInstalled(t) /\ HasSpecpdlRoot(t))']_vars

\* C16 amended: after igc_thread_add has returned the thread is installed;
\* the root over its binding stack is registered if the binding stack is
\* allocated at that time, and else the record holds no such root.
C16_ThreadAddInstalls ==
  /\ ThreadInstalled(MainThread)
  /\ specpdl[MainThread] = NoBlock
  /\ threads.node[gc_info[MainThread]].d.specpdl_root = NULL
  /\ [][\A t \in Threads :
          (gc_info[t] = NULL /\ gc_info'[t] # NULL) =>
            /\ ThreadInstalled(t)'
            /\ IF specpdl'[t] # NoBlock THEN HasSpecpdlRoot(t)'
               ELSE threads'.node[gc_info'[t]].d.specpdl_root = NULL]_vars

\* a second thread has been added and has its three registry entries and
\* its two allocation points
C16_Witness ==
  \E t \in Threads \ {MainThread} :
    /\ status = "running" /\ gc_info[t] # NULL
    /\ ThreadInstalled(t) /\ HasSpecpdlRoot(t)
    /\ ThreadAPs(gc_info[t]) \cap ThreadAPs(gc_info[MainThread]) = {}

\* C17: inside the body of a root-reallocation hook the arena is parked and
\* the collector cannot run; the root registry changes by the removal of
\* the old root first and by the registration of the new root next, and
\* the arena is released after that.
C17_HookOrder ==
  /\ [](hook.pc \in {"dereg", "reg", "release"} => (parked /\ ~CollectorCanRun))
  /\ [][hook # NoHook =>
          /\ roots'.live # roots.live =>
               \/ hook.pc = "dereg" /\ roots'.live \subseteq roots.live
               \/ hook.pc = "reg" /\ roots.live \subseteq roots'.live
          /\ parked' # parked =>
               \/ hook.pc = "park" /\ parked'
               \/ hook.pc = "release" /\ ~parked']_vars

\* igc_on_grow_read_stack has removed the root of the old reader stack and
\* not yet registered the root of the new one, with the arena parked
C17_Witness ==
  /\ status = "running"
  /\ hook.name = "grow_read_stack" /\ hook.pc = "reg"
  /\ hook.info # NULL /\ hook.info \notin roots.live
  /\ \A r \in ListSet(roots) : RootRange(r) # rdstack.blk
  /\ parked

C19_NoEmptyRoot ==
  \A n \in ListSet(roots) : roots.node[n].d.start # roots.node[n].d.end

\* C20: igc_on_mem_delete with a handle that was deregistered before,
\* igc_xfree_ambig_root with a pointer that is not the start of a block from
\* igc_xalloc_ambig_root, and igc_on_free_face_cache for a cache without
\* handle, leave the root registry as it was.
C20_UnknownHandleLeavesRegistry ==
  [][/\ \A m \in mem :
          (m.blk = NoBlock /\ MemDeleteHandle(m)) => roots' = roots
     /\ \A p \in Ptrs :
          ((\A b \in xroots : b[1] # p) /\ XfreeAmbigRootPtr(p)) => roots' = roots
     /\ (face_cache.igc_info = NULL /\ FreeFaceCacheHandle) => roots' = roots]_vars

\* the list is linked consistently: the nodes reachable from the head are the
\* allocated nodes, each once, and prev is the inverse of next
ListLinked(L) ==
  LET sq == ListSeq(L)
  IN /\ ListSet(L) = L.live
     /\ Len(sq) = Cardinality(L.live)
     /\ L.head # NULL => L.node[L.head].prev = NULL
     /\ \A n \in L.live :
          L.node[n].next # NULL => L.node[L.node[n].next].prev = n

C22_AbortOnlyAfterRetry ==
  [][\A t \in Threads :
       (Reserve(t) /\ status' = "aborted") => alloc[t].tries >= 1]_vars

\* C23: for every tag and every payload whose three lowest bits are zero,
\* IGC_TAG of the tagged word is the tag, IGC_VAL of it is the payload, and
\* word ^ tag, as IGC_FIX computes the reference, is IGC_VAL of the word.
C23_CodecRoundTrip ==
  /\ codec.dtag = codec.tag
  /\ codec.dval = codec.payload
  /\ codec.off = codec.dval

\* the largest payload has been tagged as a cons
C23_Witness ==
  /\ codec.payload = WordMod - GCALIGNMENT
  /\ codec.tag = Lisp_Cons
  /\ codec.word = WordMod - GCALIGNMENT + Lisp_Cons

\* C24: IGC_FIX calls MPS_FIX2 for a word only if the word's tag is neither
\* Lisp_Int0 nor Lisp_Int1 and MPS_FIX1 accepted the reference; whenever
\* MPS_FIX2 is not called, the word in the slot stays as it was.
C24_Fix2OnlyForAcceptedReferences ==
  /\ slot.fix2 => (slot.tag # Lisp_Int0 /\ slot.tag # Lisp_Int1 /\ slot.fix1)
  /\ ~slot.fix2 => (slot.after = slot.before /\ slot.ret = "next")

\* a cons-tagged word with a payload, for which MPS_FIX1 answered no
C24_Witness ==
  /\ slot.tag = Lisp_Cons /\ slot.before = ConsAddr(2) + Lisp_Cons
  /\ slot.ref = ConsAddr(2)
  /\ ~slot.fix1 /\ ~slot.fix2
  /\ slot.after = slot.before

\* the scan functions of the pools' formats and of the exact roots
IgcScanFunctions ==
  {"cons_scan", "symbol_scan", "scan_staticvec", "scan_faces_by_id", "scan_glyph_rows"}

\* C25: when MPS_FIX2 returns a failure result for a slot, the scan function
\* returns that result at once: the failing slot is the last one IGC_FIX was
\* applied to and lies behind all slots handled before it, it holds the word
\* it held before, and every word of the memory except the slots fixed before
\* it is unchanged.  A scan function that returns MPS_RES_OK has met no
\* failure.
C25_ScanReturnsFix2Failure ==
  scan.fn \in IgcScanFunctions =>
    LET n == Len(scan.seen)
    IN /\ scan.res # MPS_RES_OK =>
            /\ n >= 1
            /\ scan.res = MPS_RES_FAIL
            /\ scan.seen[n].fix2 /\ scan.seen[n].ref = scan.O.failref
            /\ scan.seen[n].word = scan.before[scan.seen[n].slot]
            /\ scan.after[scan.seen[n].slot] = scan.before[scan.seen[n].slot]
            /\ \A i \in 1..(n - 1) : scan.seen[i].slot < scan.seen[n].slot
            /\ \A a \in DOMAIN scan.before :
                 (\A i \in 1..(n - 1) : scan.seen[i].slot # a) =>
                   scan.after[a] = scan.before[a]
       /\ scan.res = MPS_RES_OK =>
            \A i \in 1..n : scan.seen[i].fix2 => scan.seen[i].ref # scan.O.failref

\* cons_scan has fixed car and cdr of the first cons, whose objects have
\* moved, and has returned the failure of MPS_FIX2 for the car of the second
C25_Witness ==
  /\ scan.fn = "cons_scan" /\ scan.res = MPS_RES_FAIL
  /\ Len(scan.seen) = 3 /\ scan.O.move
  /\ scan.seen[1].fix2 /\ scan.after[ScanBase] # scan.before[ScanBase]
  /\ scan.limit = ScanBase + 2 * SizeofCons
  /\ scan.before[ScanBase + 3 * WordSize] = ConsAddr(1) + Lisp_Cons

\* C26: the scan of the area of a root made by make_ambig_root treats each
\* word as IGC_FIX would: a word with tag Lisp_Int0 or Lisp_Int1 is not taken
\* for a reference, and the reference of a symbol-tagged word, the one the
\* collector is asked about, is lispsym plus the payload of the word.
C26_AmbigScanFollowsFixProtocol ==
  scan.fn = "mps_scan_area_masked" =>
    \A i \in 1..Len(scan.seen) :
      LET e == scan.seen[i]
          tag == IGC_TAG(e.word)
      IN /\ tag \in {Lisp_Int0, Lisp_Int1} => ~e.asked
         /\ (tag = Lisp_Symbol /\ e.asked) => e.ref = IGC_FIX_ref(e.word, tag)

\* the slots IGC_FIX has been applied to in the scan
SeenSlots == { scan.seen[i].slot : i \in 1..Len(scan.seen) }

\* the objects of the scanned range at stride size that are no markers
ScanObjects(size) ==
  { a \in DOMAIN scan.before :
      /\ scan.base <= a /\ a < scan.limit /\ (a - scan.base) % size = 0
      /\ scan.before[a] \notin {IGC_FWDSIG, IGC_PADSIG} }

\* the scan has applied IGC_FIX to the slots of the set in ascending order,
\* to all of them if it returned MPS_RES_OK and to those up to the failing
\* one otherwise, and has left every other word of the memory as it was
FixedExactly(slots) ==
  LET n == Len(scan.seen)
  IN /\ SeenSlots \subseteq slots
     /\ \A i \in 1..(n - 1) : scan.seen[i].slot < scan.seen[i + 1].slot
     /\ scan.res = MPS_RES_OK => SeenSlots = slots
     /\ scan.res # MPS_RES_OK =>
          \A a \in slots : a < scan.seen[n].slot => a \in SeenSlots
     /\ \A a \in DOMAIN scan.before :
          a \notin SeenSlots => scan.after[a] = scan.before[a]

\* C27: cons_scan over [base, limit) applies IGC_FIX to no slot of an object
\* whose first word is the forwarding or the padding signature, and to car
\* and cdr of every other object at stride sizeof (struct Lisp_Cons) below
\* limit (in a scan that MPS_FIX2 fails, of every one before the failing
\* slot); it changes no word outside these slots, so none at or beyond limit.
C27_ConsScanFixesCarAndCdr ==
  scan.fn = "cons_scan" =>
    /\ FixedExactly(UNION { {c, c + WordSize} : c \in ScanObjects(SizeofCons) })
    /\ \A a \in SeenSlots : scan.base <= a /\ a + WordSize <= scan.limit

\* cons_scan over two objects has skipped the first, a padding object, and
\* has fixed car and cdr of the second, whose referents moved
C27_Witness ==
  /\ scan.fn = "cons_scan" /\ scan.res = MPS_RES_OK
  /\ scan.limit = ScanBase + 2 * SizeofCons
  /\ scan.before[ScanBase] = IGC_PADSIG
  /\ scan.before[ScanBase + WordSize] = ConsAddr(1) + Lisp_Cons
  /\ scan.after[ScanBase + WordSize] = ConsAddr(1) + Lisp_Cons
  /\ SeenSlots = {ScanBase + SizeofCons, ScanBase + SizeofCons + WordSize}
  /\ scan.after[ScanBase + SizeofCons] # scan.before[ScanBase + SizeofCons]
  /\ scan.after[ScanBase + SizeofCons + WordSize] = ConsAddr(1) + MoveBy + Lisp_Cons

\* the slots of the symbol at sym that symbol_scan is to fix
SymbolSlots(sym) ==
  { sym + f * WordSize : f \in {SymName, SymFunction, SymPlist, SymPackage} }
    \cup (IF Redirect(scan.before[sym]) = SYMBOL_PLAINVAL
          THEN {sym + SymValue * WordSize} ELSE {})

\* C28: symbol_scan applies IGC_FIX to name, function, plist and package of
\* every symbol of the range that is no marker, and to its value slot if and
\* only if its redirect field is SYMBOL_PLAINVAL (in a scan that MPS_FIX2
\* fails, to those before the failing slot); with any other redirect the
\* value slot holds after the scan what it held before.
C28_SymbolScanFixesFields ==
  scan.fn = "symbol_scan" =>
    /\ FixedExactly(UNION { SymbolSlots(sym) : sym \in ScanObjects(SizeofSymbol) })
    /\ \A sym \in ScanObjects(SizeofSymbol) :
         Redirect(scan.before[sym]) # SYMBOL_PLAINVAL =>
           /\ sym + SymValue * WordSize \notin SeenSlots
           /\ scan.after[sym + SymValue * WordSize] = scan.before[sym + SymValue * WordSize]

\* symbol_scan has fixed the four slots of a symbol whose redirect is not
\* SYMBOL_PLAINVAL and whose value slot holds a reference to a cons that
\* moved, and the five slots of a second symbol with a plain value
C28_Witness ==
  /\ scan.fn = "symbol_scan" /\ scan.res = MPS_RES_OK /\ scan.O.move
  /\ Redirect(scan.before[ScanBase]) = 1
  /\ scan.before[ScanBase + SymValue * WordSize] = ConsAddr(1) + Lisp_Cons
  /\ scan.after[ScanBase + SymValue * WordSize] = ConsAddr(1) + Lisp_Cons
  /\ scan.after[ScanBase + SymName * WordSize] = ConsAddr(1) + MoveBy + Lisp_Cons
  /\ Redirect(scan.before[ScanBase + SizeofSymbol]) = SYMBOL_PLAINVAL
  /\ scan.after[ScanBase + SizeofSymbol + SymValue * WordSize] = ConsAddr(2) + MoveBy + Lisp_Cons
  /\ Len(scan.seen) = 9

FwdMethods == {"cons_fwd", "symbol_fwd"}
IsfwdMethods == {"cons_isfwd", "symbol_isfwd"}
PadMethods == {"cons_pad", "symbol_pad"}

\* an isfwd method called right after a fwd method for the same address has
\* returned the new address, and an isfwd method called for an address whose
\* first word is not the forwarding signature has returned null, whenever
\* the methods returned at all
ForwardRoundTrip ==
  (fmt.call.fn \in IsfwdMethods /\ fmt.call.ret = "normal") =>
    /\ (fmt.prev.fn \in FwdMethods /\ fmt.prev.addr = fmt.call.addr) =>
         fmt.call.val = fmt.prev.arg
    /\ fmt.before[fmt.call.addr] # IGC_FWDSIG => fmt.call.val = NULL

\* C29: cons_fwd, symbol_fwd, cons_isfwd and symbol_isfwd return normally
\* to the collector; cons_isfwd or symbol_isfwd called for old right after
\* cons_fwd or symbol_fwd was called with (old, new) returns new, and called
\* for an address whose first word is not the forwarding signature it
\* returns null.
C29_ForwardCallbacksRoundTrip ==
  /\ fmt.call.fn \in FwdMethods \cup IsfwdMethods => fmt.call.ret = "normal"
  /\ ForwardRoundTrip

\* C30: for every size that is at least sizeof (struct igc_pad) and a
\* multiple of the alignment of the format, pad (addr, size), called as
\* cons_pad or symbol_pad, returns normally; then is_padding (addr) is true,
\* is_forwarded (addr) is null, and every word outside [addr, addr + size)
\* holds what it held before.
C30_PadWritesMarkerInside ==
  (fmt.call.fn \in PadMethods /\ fmt.call.arg >= SizeofPad /\ fmt.call.arg % GCALIGNMENT = 0) =>
    /\ fmt.call.ret = "normal"
    /\ is_padding(fmt.mem, fmt.call.addr)
    /\ is_forwarded(fmt.mem, fmt.call.addr) = NULL
    /\ \A a \in DOMAIN fmt.mem :
         ~(fmt.call.addr <= a /\ a < fmt.call.addr + fmt.call.arg) =>
           fmt.mem[a] = fmt.before[a]

\* C31: when a call of handle_messages returns, the message queue is empty,
\* and every message the call obtained has been passed to do_finalize once
\* and is discarded.  At all times a message that was obtained and is not
\* discarded is the one a call of do_finalize in progress is working on, and
\* no message is passed to do_finalize twice.
C31_DrainDiscardsEveryMessage ==
  /\ [][\A t \in Threads :
          HandleMessagesReturn(t) =>
            /\ msgq = <<>>
            /\ \A m \in Obtained(hm, t, Len(drain[t])) :
                 hm.stat[m] = "discarded" /\ hm.nfin[m] = 1]_vars
  /\ [](\A m \in Messages :
          /\ hm.nfin[m] <= 1
          /\ hm.stat[m] \in {"none", "queued", "finalizing", "discarded"}
          /\ hm.stat[m] = "discarded" => hm.nfin[m] = 1
          /\ hm.stat[m] = "finalizing" =>
               \E t \in Threads, k \in 1..MaxDrainDepth :
                 /\ hm.owner[m] = <<t, k>>
                 /\ k < Len(drain[t]) /\ drain[t][k + 1].pc = "run")

\* every call of handle_messages has returned; all messages were obtained,
\* passed to do_finalize and discarded, one of them for a finalizer whose
\* function was run and one for a finalizer whose function was nil already
C31_Witness ==
  /\ hm.posted = MaxPosted /\ msgq = <<>>
  /\ \A m \in Messages : hm.stat[m] = "discarded" /\ hm.owner[m] = NoOwner
  /\ \A t \in Threads : drain[t] = <<>>
  /\ \E f \in Finalizers : runs[f] = 1
  /\ \E f \in Finalizers : runs[f] = 0

\* t->d.specpdl_root of the record of thread t
SpecpdlRoot(t) == threads.node[gc_info[t]].d.specpdl_root

\* C32: whenever no hook is in progress, the specpdl_root of each thread is
\* null, and the thread has no binding stack yet, or it is a root of the
\* registry whose range is the thread's [specpdl, specpdl_end), and no two
\* threads share one.  A specpdl_root is overwritten only when it is null or
\* its root has left the registry, so no thread has two binding-stack roots
\* registered; and igc_on_grow_specpdl is entered only with a specpdl_root
\* that is not null.
C32_OneSpecpdlRootPerThread ==
  /\ []((status = "running" /\ hook = NoHook) =>
          /\ \A t \in Threads :
               gc_info[t] # NULL =>
                 IF specpdl[t] = NoBlock THEN SpecpdlRoot(t) = NULL
                 ELSE /\ SpecpdlRoot(t) \in ListSet(roots)
                      /\ RootRange(SpecpdlRoot(t)) = specpdl[t]
                      /\ roots.node[SpecpdlRoot(t)].d.root \in mps_roots
          /\ \A t, u \in Threads :
               (t # u /\ gc_info[t] # NULL /\ gc_info[u] # NULL
                  /\ SpecpdlRoot(t) # NULL) => SpecpdlRoot(t) # SpecpdlRoot(u))
  /\ [][\A n \in threads.live \cap threads'.live :
          LET h == threads.node[n].d.specpdl_root
          IN (status' = "running" /\ threads'.node[n].d.specpdl_root # h) =>
               (h = NULL \/ h \notin ListSet(roots)')]_vars
  /\ [][\A t \in Threads : GrowSpecpdl(t) => SpecpdlRoot(t) # NULL]_vars

\* igc_on_grow_specpdl of a thread other than the main thread is about to
\* return: the new root is registered over the grown binding stack
C32_Witness ==
  /\ status = "running"
  /\ hook.name = "grow_specpdl" /\ hook.pc = "release" /\ hook.t # MainThread
  /\ SpecpdlRoot(hook.t) \in ListSet(roots)
  /\ RootRange(SpecpdlRoot(hook.t)) = specpdl[hook.t]
  /\ SpecpdlRoot(MainThread) = NULL

\* C33: igc_on_specbinding_unused leaves zero in every word of the released
\* binding and every word outside of it as it was.  In a scan of the binding
\* stack that follows, by IGC_FIX or by the scan function of the stack's
\* root, MPS_FIX2 is not called for a zeroed word, whose reference is
\* outside of the pools, and the word is still zero after the scan.
C33_UnusedSpecbindingZeroed ==
  LET InSlot(a) == scan.base <= a /\ a < scan.limit
  IN /\ scan.fn = "igc_on_specbinding_unused" =>
          \A a \in DOMAIN scan.before :
            scan.after[a] = IF InSlot(a) THEN 0 ELSE scan.before[a]
     /\ scan.fn \in {"IGC_FIX of specpdl", "mps_scan_area_masked of specpdl"} =>
          /\ \A a \in DOMAIN scan.before :
               InSlot(a) => (scan.before[a] = 0 /\ scan.after[a] = 0)
          /\ \A i \in 1..Len(scan.seen) :
               InSlot(scan.seen[i].slot) =>
                 /\ ~scan.seen[i].fix2
                 /\ ~MPS_FIX1(scan.seen[i].ref)
          /\ scan.limit = scan.base + SizeofSpecbinding

\* the second binding of the stack was released, and IGC_FIX has gone over
\* the stack: it has fixed a reference of the first binding, whose object
\* moved, and has passed over the zeroed words of the second
C33_Witness ==
  /\ scan.fn = "IGC_FIX of specpdl" /\ scan.res = MPS_RES_OK
  /\ scan.base = ScanBase + SizeofSpecbinding
  /\ scan.before[ScanBase] = ConsAddr(1) + Lisp_Cons
  /\ scan.after[ScanBase] = ConsAddr(1) + MoveBy + Lisp_Cons
  /\ Len(scan.seen) = NumSpecbindings * SpecbindingWords
  /\ scan.seen[Len(scan.seen)].ref = LispSym[1]
  /\ scan.after[ScanBase + SizeofSpecbinding] = 0
  /\ scan.after[ScanBase + SizeofSpecbinding + WordSize] = 0

\* the list is well formed: the walk from the head through next meets every
\* allocated node once and no other node and ends (no cycle), the head has
\* no prev, and next and prev are inverse to each other
WellFormed(L) ==
  /\ ListLinked(L)
  /\ \A n \in L.live :
       L.node[n].prev # NULL =>
         (L.node[n].prev \in L.live /\ L.node[L.node[n].prev].next = n)

\* from list L to list M the nodes that stay keep their order, and the nodes
\* pushed stand before them, so that the head is a pushed node if there is one
PushedAtHead(L, M) ==
  LET new == M.live \ L.live
      IsKept(n) == n \in L.live \cap M.live
      sq == ListSeq(M)
  IN /\ new # {} => M.head \in new
     /\ SelectSeq(sq, IsKept) = SelectSeq(ListSeq(L), IsKept)
     /\ \A i, j \in 1..Len(sq) : (i < j /\ sq[j] \in new) => sq[i] \in new

\* C34: after any sequence of pushes and removals the root registry and the
\* thread registry are well-formed doubly-linked lists whose nodes are the
\* handles pushed and not removed; a pushed node becomes the head, and the
\* other nodes keep their order.
C34_ListsWellFormed ==
  /\ [](WellFormed(roots) /\ WellFormed(threads))
  /\ [][PushedAtHead(roots, roots') /\ PushedAtHead(threads, threads')]_vars

\* the root registry holds at least three nodes, a node was removed from it
\* and the node pushed last took the place of a removed one; the thread
\* registry holds two nodes
C34_Witness ==
  /\ status = "running"
  /\ Cardinality(roots.live) >= 3 /\ Cardinality(threads.live) = 2
  /\ \E m \in RootNodes \ roots.live : \E n \in roots.live : m < n
  /\ roots.node[roots.head].next # NULL
  /\ roots.head < roots.node[roots.head].next
  /\ roots.node[roots.node[roots.head].next].next # NULL

\* this step of free_igc destroys resource r
Destroys(r) == r \notin td.destroyed /\ r \in td'.destroyed

\* C35: during free_igc, also after any number of igc_thread_add and
\* igc_thread_remove calls, resources are destroyed in dependency order:
\* when a pool is destroyed no allocation point created on it is left, and
\* when the chain or the arena is destroyed no root is registered any more.
C35_TeardownInDependencyOrder ==
  [][/\ \A p \in {"cons_pool", "symbol_pool"} :
          Destroys(p) => LiveAPsOn(GC, p) = {}
     /\ (Destroys("chain") \/ Destroys("arena")) =>
          mps_roots = {} /\ roots.head = NULL]_vars

\* C35, the part that holds: the roots are gone before the chain and the
\* arena are destroyed
C35_RootsBeforeChainAndArena ==
  [][(Destroys("chain") \/ Destroys("arena")) =>
       mps_roots = {} /\ roots.head = NULL]_vars

\* C36: after igc_thread_remove (info) has returned, the root registry holds
\* no root of the removed thread: neither the root add_thread_root created
\* for its stack nor its specpdl_root is registered any more.
C36_ThreadRemoveRemovesRoots ==
  [][\A t \in Threads :
       ThreadRemove(t) =>
         /\ \A r \in ListSet(roots') : roots'.node[r].d.start # Cold(t)
         /\ SpecpdlRoot(t) \notin ListSet(roots')]_vars

\* the handles the runtime keeps in face_cache.igc_info, in
\* glyph_matrix.igc_info and in the specpdl_root of each thread
HandleFields ==
  {face_cache.igc_info, matrix.igc_info}
    \cup { SpecpdlRoot(t) : t \in { u \in Threads : gc_info[u] # NULL } }

\* C37: between hooks every handle field is null or a handle of the root
\* registry; igc_on_free_glyph_matrix on a matrix whose handle is null changes
\* nothing; and over any sequence of the face-cache and glyph-matrix hooks no
\* hook passes a null handle to remove_root, which would end the process
\* with a fault.
C37_HandleFieldsRegistered ==
  /\ [](status = "running" /\ hook = NoHook =>
          \A h \in HandleFields : h = NULL \/ h \in ListSet(roots))
  /\ [][/\ FreeGlyphMatrix /\ matrix.igc_info = NULL => UNCHANGED gcvars
        /\ status = "running" => status' # "crashed"]_vars

\* C37, the part that holds: between hooks, as long as the process runs, no
\* handle field points to a removed root
C37_NoStaleHandle ==
  status = "running" /\ hook = NoHook =>
    \A h \in HandleFields : h = NULL \/ h \in ListSet(roots)

\* a step that calls mps_arena_release: release_arena run by unbind_to or by
\* an unwind, or the third clause of IGC_WITH_PARKED
ReleaseStep ==
  \/ \E t \in Threads : UnbindTo(t) \/ SignalUnwind(t)
  \/ HookRelease

\* C38, the part that holds: the body of IGC_WITH_PARKED runs once, in a
\* parked arena, between the park and the release of the macro, and when the
\* last inhibit scope has been left and no hook is in progress the arena is
\* released.
C38_BodyOnceAndReleasedAtEnd ==
  /\ [][/\ HookPark => parked' /\ hook'.pc = "dereg"
        /\ HookDereg => parked /\ hook'.pc = "reg"
        /\ HookReg => parked /\ (status' = "running" => hook'.pc = "release")
        /\ HookRelease => ~parked' /\ hook' = NoHook]_vars
  /\ []((status = "running" /\ hook = NoHook /\ \A t \in Threads : inhibit[t] = 0)
          => ~parked)

\* C38: parks and releases are balanced: the body of IGC_WITH_PARKED runs
\* exactly once between one park and one release, the arena is never released
\* while it is not parked, and after any sequence of hooks in which every
\* inhibit scope has been exited the arena is in the released state.
C38_ParksAndReleasesBalanced ==
  /\ C38_BodyOnceAndReleasedAtEnd
  /\ [][ReleaseStep => parked]_vars

\* C39 as stated: if the collector does not invalidate the reservation on
\* every attempt for ever, a call of igc_make_cons that has entered the
\* reserve/initialize/commit loop eventually has committed its object and is
\* about to return it.
C39_MakeConsCommitsAndReturns ==
  \A t \in Threads :
    (alloc[t].fn = "cons" /\ alloc[t].pc = "reserve")
      ~> (alloc[t].pc = "return" /\ alloc[t].p \in CommittedCons)

\* C39: igc_make_cons terminates: if the collector does not invalidate the
\* reservation on every attempt for ever, a call that has entered the
\* reserve/initialize/commit loop eventually has committed its object and is
\* about to return it, unless mps_reserve has failed and ended the process.
C39_MakeConsTerminates ==
  \A t \in Threads :
    (alloc[t].fn = "cons" /\ alloc[t].pc = "reserve")
      ~> \/ alloc[t].pc = "return" /\ alloc[t].p \in CommittedCons
         \/ status = "aborted"

\* C39: a call of igc_make_cons has committed and is about to return after a
\* collection made an earlier commit of the same call fail
C39_Witness ==
  \E t \in Threads :
    /\ alloc[t].fn = "cons" /\ alloc[t].pc = "return" /\ alloc[t].tries >= 2
    /\ alloc[t].p \in CommittedCons /\ status = "running"

\* the collector's answers of a scan in which no MPS_FIX2 fails
Unfailing(O) == [O EXCEPT !.failref = NULL]

\* C40: scanning is idempotent once the references are up to date: after
\* cons_scan or symbol_scan has returned MPS_RES_OK over an area, a second
\* scan of the area during which no object moves changes no word; and after
\* a scan that a failure of MPS_FIX2 has ended, a rescan of the area in which
\* no MPS_FIX2 fails leaves the area as one uninterrupted scan of the
\* original area would have left it.
C40_RescanIdempotent ==
  scan.again.done =>
    /\ (scan.res = MPS_RES_OK /\ ~scan.again.O.move) =>
         scan.again.after = scan.after
    /\ (scan.res # MPS_RES_OK /\ scan.again.O = Unfailing(scan.O)) =>
         /\ scan.again.res = MPS_RES_OK
         /\ scan.again.after =
              format_scan(scan.fn, scan.before, scan.base, scan.limit,
                          Unfailing(scan.O)).mem

\* C40: a scan that moved objects was ended by a failure of MPS_FIX2 after it
\* had rewritten a slot, and the rescan has rewritten a slot the first scan
\* did not reach
C40_Witness ==
  /\ scan.again.done /\ scan.res # MPS_RES_OK /\ scan.O.move
  /\ scan.again.O = Unfailing(scan.O)
  /\ \E a \in DOMAIN scan.before : scan.after[a] # scan.before[a]
  /\ \E a \in DOMAIN scan.before : scan.again.after[a] # scan.after[a]

====
